---- MODULE Spec2Model ----
(***************************************************************************)
(* OraculusBot (src/oraculus_bot.py): the submission store, the selection  *)
(* of a submission for the leaderboard and the badge engine.               *)
(*                                                                         *)
(* The SQLite database is modelled by its committed tables: submissions    *)
(* (a sequence of rows in id order), user_badges (a bag of rows, so that a *)
(* duplicate row would be visible).  Scores are REAL in the database; the  *)
(* model takes an integer gain matrix, for which every score is an exact   *)
(* integer.                                                                *)
(***************************************************************************)
EXTENDS Integers, Sequences, FiniteSets, Bags, TLC

VARIABLES
    config,         \* the loaded configuration and master data (fixed after construction)
    now,            \* datetime.now(), in ticks
    started,        \* history: per bot process started on the database, the rows stored by then
    fake_submissions, \* table fake_submissions, committed rows (name is UNIQUE)
    submissions,    \* table submissions, committed rows in id order
    user_badges,    \* table user_badges, committed rows as a bag of <<user_id, badge_name>>
    response,       \* the response of the last completed command and the sender it is for
    last_eval,      \* the last completed call of check_and_award_badges: arguments and results
    first_selected, \* history: the users that completed a successful select
    unlocked,       \* history: bag of users, one copy per select response that announced the badge
    pc,             \* per handler: the statement of the command it is about to execute
    req,            \* per handler: the command's arguments and local variables
    txn,            \* per handler: the open transaction's view of the tables, or NoTxn
    observed,       \* what the last concurrent reader saw
    client,         \* self.client: the number of coming send_message calls that raise
    sent,           \* the message the last step delivered to the sender, if any
    service         \* the position of the bot's process: in run(), or ended by an exception

vars == << config, now, started, fake_submissions, submissions, user_badges, response,
           last_eval, first_selected, unlocked, pc, req, txn, observed,
           client, sent, service >>

----------------------------------------------------------------------------
(* Bounds of the model *)

MaxUsers == 2
MaxSubs == 3

Users == 1 .. MaxUsers

\* message["sender_full_name"]: a user may rename themselves between messages
FullNames == {"name_a", "name_b"}

Email(u) == << "mail", u >>

NoCall == [called |-> FALSE]
NoTxn == [open |-> FALSE]
NoResponse == [kind |-> "none"]

----------------------------------------------------------------------------
(* Master data and scoring: load_master_data, calculate_scores *)

master_df == << [id |-> 1, clase_binaria |-> 1, dataset |-> "public"],
                [id |-> 2, clase_binaria |-> 1, dataset |-> "private"] >>

RECURSIVE SelectRows(_, _)
SelectRows(df, part) ==
    IF df = << >> THEN << >>
    ELSE (IF Head(df).dataset = part THEN << Head(df) >> ELSE << >>)
         \o SelectRows(Tail(df), part)

\* self.public_df, self.private_df, self.all_ids: set by load_master_data
public_df == SelectRows(config.master_df, "public")
private_df == SelectRows(config.master_df, "private")
all_ids == {config.master_df[i].id : i \in DOMAIN config.master_df}


gain_matrix == [tp |-> 2, tn |-> 1, fp |-> -1, fn |-> -2]

\* sklearn confusion_matrix(true, predicted, labels=[0, 1]).ravel() = tn, fp, fn, tp
RECURSIVE ConfusionCount(_, _, _, _)
ConfusionCount(df, predicted, true_label, pred_label) ==
    IF df = << >> THEN 0
    ELSE (IF /\ Head(df).clase_binaria = true_label
             /\ (IF Head(df).id \in predicted THEN 1 ELSE 0) = pred_label
          THEN 1 ELSE 0)
         + ConfusionCount(Tail(df), predicted, true_label, pred_label)

\* the bug: the cells of the confusion matrix unpacked as tp, fn, fp, tn
ScoreWithCellsReversed(dataset_df, predicted_positive_ids) ==
    IF Len(dataset_df) = 0 THEN [score |-> 0, tp |-> 0, tn |-> 0, fp |-> 0, fn |-> 0]
    ELSE LET tp == ConfusionCount(dataset_df, predicted_positive_ids, 0, 0)
             fn == ConfusionCount(dataset_df, predicted_positive_ids, 0, 1)
             fp == ConfusionCount(dataset_df, predicted_positive_ids, 1, 0)
             tn == ConfusionCount(dataset_df, predicted_positive_ids, 1, 1)
         IN  [score |-> tp * config.gain_matrix.tp + tn * config.gain_matrix.tn
                        + fp * config.gain_matrix.fp + fn * config.gain_matrix.fn,
              tp |-> tp, tn |-> tn, fp |-> fp, fn |-> fn]

calculate_score_for_dataset(dataset_df, predicted_positive_ids) ==
    IF Len(dataset_df) = 0 THEN [score |-> 0, tp |-> 0, tn |-> 0, fp |-> 0, fn |-> 0]
    ELSE LET tn == ConfusionCount(dataset_df, predicted_positive_ids, 0, 0)
             fp == ConfusionCount(dataset_df, predicted_positive_ids, 0, 1)
             fn == ConfusionCount(dataset_df, predicted_positive_ids, 1, 0)
             tp == ConfusionCount(dataset_df, predicted_positive_ids, 1, 1)
         IN  [score |-> tp * config.gain_matrix.tp + tn * config.gain_matrix.tn
                        + fp * config.gain_matrix.fp + fn * config.gain_matrix.fn,
              tp |-> tp, tn |-> tn, fp |-> fp, fn |-> fn]

\* the bug: a score that depends on what the store holds
ScoresDriftWithStore(predicted_positive_ids) ==
    LET public == calculate_score_for_dataset(public_df, predicted_positive_ids)
    IN  [public |-> [public EXCEPT !.score = @ + Len(submissions)],
         private |-> calculate_score_for_dataset(private_df, predicted_positive_ids)]

calculate_scores(predicted_positive_ids) ==
    [public |-> calculate_score_for_dataset(public_df, predicted_positive_ids),
     private |-> calculate_score_for_dataset(private_df, predicted_positive_ids)]

----------------------------------------------------------------------------
(* Uploaded files: a CSV of one column, header=None, is the sequence of its
   identifiers.  An empty upload is refused before it is parsed, so a parsed
   file has at least one line. *)

\* set(df.iloc[:, 0].astype(int))
PredictedIds(file_content) == {file_content[i] : i \in DOMAIN file_content}

\* hashlib.sha256(file_content).hexdigest(): equal for equal bytes only
sha256(file_content) == << "sha256", file_content >>

\* the file that lists the identifiers of a set once each, in ascending order
RECURSIVE CsvOf(_)
CsvOf(ids) ==
    IF ids = {} THEN << >>
    ELSE LET first == CHOOSE x \in ids : \A y \in ids : x <= y
         IN  << first >> \o CsvOf(ids \ {first})

\* the bug: no identifier is looked up in the master data
NoInvalidIds(predicted_positive_ids) == {}

\* predicted_positive_ids - self.all_ids
invalid_ids(predicted_positive_ids) == predicted_positive_ids \ all_ids

----------------------------------------------------------------------------
(* Thresholds: get_threshold_category *)

\* a sort that is not stable: of two thresholds with the same min_score the
\* one configured later comes first
RECURSIVE InsertDescBeforeEqual(_, _)
InsertDescBeforeEqual(t, sorted) ==
    IF sorted = << >> THEN << t >>
    ELSE IF Head(sorted).min_score > t.min_score
         THEN << Head(sorted) >> \o InsertDescBeforeEqual(t, Tail(sorted))
         ELSE << t >> \o sorted

\* sorted(thresholds, key=min_score, reverse=True): stable, so thresholds with
\* the same min_score keep their configured order
RECURSIVE InsertDesc(_, _)
InsertDesc(t, sorted) ==
    IF sorted = << >> THEN << t >>
    ELSE IF Head(sorted).min_score >= t.min_score
         THEN << Head(sorted) >> \o InsertDesc(t, Tail(sorted))
         ELSE << t >> \o sorted

\* the bug: the thresholds are tried in their configured order
ConfiguredOrder(thresholds) == thresholds

RECURSIVE SortedDesc(_)
SortedDesc(thresholds) ==
    IF thresholds = << >> THEN << >>
    ELSE InsertDesc(thresholds[Len(thresholds)],
                    SortedDesc(SubSeq(thresholds, 1, Len(thresholds) - 1)))

RECURSIVE FirstReached(_, _)
FirstReached(sorted, score) ==
    IF sorted = << >> THEN "none"
    ELSE IF score >= Head(sorted).min_score THEN Head(sorted).category
         ELSE FirstReached(Tail(sorted), score)

get_threshold_category(thresholds, score) ==
    LET hit == FirstReached(SortedDesc(thresholds), score)
    IN  IF hit # "none" THEN hit ELSE thresholds[Len(thresholds)].category

\* the threshold lists a competition may be configured with
ThresholdConfigs ==
    { << [min_score |-> 0, category |-> "basic"] >>,
      << [min_score |-> 3, category |-> "excellent"],
         [min_score |-> 2, category |-> "good"],
         [min_score |-> 0, category |-> "basic"] >>,
      << [min_score |-> 0, category |-> "basic"],
         [min_score |-> 3, category |-> "excellent"] >> }

----------------------------------------------------------------------------
(* Table submissions *)

RowsOfUser(subs, user_id) == {i \in DOMAIN subs : subs[i].user_id = user_id}

SelectedOfUser(subs, user_id) ==
    {i \in DOMAIN subs : subs[i].user_id = user_id /\ subs[i].is_selected}

\* INSERT INTO submissions: id INTEGER PRIMARY KEY AUTOINCREMENT, no row is ever
\* deleted, is_selected BOOLEAN DEFAULT FALSE
\* the bug: a counter kept by the bot process, which starts again at 1
IdCountedByProcess(subs) == Len(subs) - started[Len(started)] + 1

NewSubmissionId(subs) == Len(subs) + 1

\* the row with the confusion counts of the public partition
SavePublicCounts(subs, user_info, checksum, public_results, private_results, positives_predicted, threshold_category) ==
    Append(subs, [id |-> Len(subs) + 1,
                  user_id |-> user_info.user_id,
                  user_email |-> user_info.email,
                  user_full_name |-> user_info.full_name,
                  timestamp |-> now,
                  file_checksum |-> checksum,
                  public_score |-> public_results.score,
                  private_score |-> private_results.score,
                  tp |-> public_results.tp, tn |-> public_results.tn,
                  fp |-> public_results.fp, fn |-> public_results.fn,
                  positives_predicted |-> positives_predicted,
                  threshold_category |-> threshold_category,
                  is_selected |-> FALSE])

save_submission(subs, user_info, checksum, public_results, private_results, positives_predicted, threshold_category) ==
    Append(subs, [id |-> NewSubmissionId(subs),
                  user_id |-> user_info.user_id,
                  user_email |-> user_info.email,
                  user_full_name |-> user_info.full_name,
                  timestamp |-> now,
                  file_checksum |-> checksum,
                  public_score |-> public_results.score,
                  private_score |-> private_results.score,
                  tp |-> private_results.tp, tn |-> private_results.tn,
                  fp |-> private_results.fp, fn |-> private_results.fn,
                  positives_predicted |-> positives_predicted,
                  threshold_category |-> threshold_category,
                  is_selected |-> FALSE])

----------------------------------------------------------------------------
(* Badges: check_and_award_badges *)

TopRank == 5

BadgeNames == {"first_submission", "first_model_selection", "submissions_10",
               "submissions_50", "submissions_100", "top_5_public",
               "high_threshold_first"}

badge_thresholds == << << 10, "submissions_10" >>, << 50, "submissions_50" >>,
                       << 100, "submissions_100" >> >>

\* the bug: a count badge for every count at or above its threshold
RECURSIVE CountBadgesAtLeast(_, _)
CountBadgesAtLeast(pairs, submission_count) ==
    IF pairs = << >> THEN << >>
    ELSE (IF submission_count >= Head(pairs)[1] THEN << Head(pairs)[2] >> ELSE << >>)
         \o CountBadgesAtLeast(Tail(pairs), submission_count)

RECURSIVE CountBadges(_, _)
CountBadges(pairs, submission_count) ==
    IF pairs = << >> THEN << >>
    ELSE (IF submission_count = Head(pairs)[1] THEN << Head(pairs)[2] >> ELSE << >>)
         \o CountBadges(Tail(pairs), submission_count)

\* the bug: the rank counts every submission, selected or not
PublicRankOfAll(subs, public_score) ==
    Cardinality({i \in DOMAIN subs : subs[i].public_score > public_score}) + 1

\* SELECT COUNT(*) FROM submissions WHERE public_score > ? AND is_selected = TRUE; + 1
PublicRank(subs, public_score) ==
    Cardinality({i \in DOMAIN subs :
                    subs[i].public_score > public_score /\ subs[i].is_selected}) + 1

TopFiveBadge(subs, public_score) ==
    IF PublicRank(subs, public_score) <= TopRank THEN << "top_5_public" >> ELSE << >>

\* the bug: the count is over the submissions of every user
ReachedCountAnyUser(subs, user_id, min_score) ==
    Cardinality({i \in DOMAIN subs : subs[i].public_score >= min_score})

\* SELECT COUNT(*) FROM submissions WHERE user_id = ? AND public_score >= ?
ReachedCount(subs, user_id, min_score) ==
    Cardinality({i \in DOMAIN subs :
                    subs[i].user_id = user_id /\ subs[i].public_score >= min_score})

HighThresholdBadge(subs, thresholds, user_id, public_score) ==
    LET sorted == SortedDesc(thresholds)
    IN  IF /\ Len(sorted) > 1
           /\ public_score >= sorted[2].min_score
           /\ ReachedCount(subs, user_id, sorted[2].min_score) = 1
        THEN << "high_threshold_first" >> ELSE << >>

BadgesToAward(subs, thresholds, user_id, submission_count, public_score, is_first_selection) ==
    (IF submission_count = 1 THEN << "first_submission" >> ELSE << >>)
    \o (IF is_first_selection THEN << "first_model_selection" >> ELSE << >>)
    \o CountBadges(badge_thresholds, submission_count)
    \o TopFiveBadge(subs, public_score)
    \o HighThresholdBadge(subs, thresholds, user_id, public_score)

\* the bug: no UNIQUE(user_id, badge_name), every INSERT adds a row
InsertBadgeNoConstraint(badges, user_id, badge_name) ==
    [ok |-> TRUE, rows |-> badges (+) SetToBag({<< user_id, badge_name >>})]

\* the bug: a badge the user holds is not inserted again but is returned as new
InsertBadgeReportsAgain(badges, user_id, badge_name) ==
    [ok |-> TRUE,
     rows |-> IF BagIn(<< user_id, badge_name >>, badges) THEN badges
              ELSE badges (+) SetToBag({<< user_id, badge_name >>})]

\* INSERT INTO user_badges under UNIQUE(user_id, badge_name): an existing row
\* raises sqlite3.IntegrityError, which the loop swallows
InsertBadge(badges, user_id, badge_name) ==
    IF BagIn(<< user_id, badge_name >>, badges)
    THEN [ok |-> FALSE, rows |-> badges]
    ELSE [ok |-> TRUE, rows |-> badges (+) SetToBag({<< user_id, badge_name >>})]

RECURSIVE InsertBadges(_, _, _)
InsertBadges(badges, user_id, to_award) ==
    IF to_award = << >> THEN [rows |-> badges, new_badges |-> << >>]
    ELSE LET one == InsertBadge(badges, user_id, Head(to_award))
             rest == InsertBadges(one.rows, user_id, Tail(to_award))
         IN  [rows |-> rest.rows,
              new_badges |-> (IF one.ok THEN << Head(to_award) >> ELSE << >>)
                             \o rest.new_badges]

check_and_award_badges(subs, badges, thresholds, user_id, submission_count, public_score, is_first_selection) ==
    LET badges_to_award == BadgesToAward(subs, thresholds, user_id, submission_count,
                                         public_score, is_first_selection)
        inserted == InsertBadges(badges, user_id, badges_to_award)
    IN  [called |-> TRUE,
         user_id |-> user_id,
         submission_count |-> submission_count,
         public_score |-> public_score,
         is_first_selection |-> is_first_selection,
         badges_to_award |-> badges_to_award,
         new_badges |-> inserted.new_badges,
         rows |-> inserted.rows]

\* the record of a call that last_eval keeps: everything but the table
EvalRecord(ev) ==
    [called |-> TRUE, user_id |-> ev.user_id, submission_count |-> ev.submission_count,
     public_score |-> ev.public_score, is_first_selection |-> ev.is_first_selection,
     badges_to_award |-> ev.badges_to_award, new_badges |-> ev.new_badges]

----------------------------------------------------------------------------
(* Selection: the statements of process_select *)

\* the bug: the owner of the submission is not checked
OwnsSubmissionAnyUser(subs, user_id, submission_id) ==
    \E i \in DOMAIN subs : subs[i].id = submission_id

\* SELECT id FROM submissions WHERE id = ? AND user_id = ?
OwnsSubmission(subs, user_id, submission_id) ==
    \E i \in DOMAIN subs : subs[i].id = submission_id /\ subs[i].user_id = user_id

\* the bug: the previous selection is not cleared
ClearSelectionKeeps(subs, user_id) == subs

\* UPDATE submissions SET is_selected = FALSE WHERE user_id = ?
\* the UPDATE without its WHERE user_id = ?: the flags of every user are cleared
ClearSelectionOfAll(subs, user_id) ==
    [i \in DOMAIN subs |-> [subs[i] EXCEPT !.is_selected = FALSE]]

ClearSelection(subs, user_id) ==
    [i \in DOMAIN subs |->
        IF subs[i].user_id = user_id THEN [subs[i] EXCEPT !.is_selected = FALSE]
        ELSE subs[i]]

\* UPDATE submissions SET is_selected = TRUE WHERE id = ? AND user_id = ?
SetSelection(subs, user_id, submission_id) ==
    [i \in DOMAIN subs |->
        IF subs[i].id = submission_id /\ subs[i].user_id = user_id
        THEN [subs[i] EXCEPT !.is_selected = TRUE]
        ELSE subs[i]]

\* SELECT COUNT(*) FROM user_badges WHERE user_id = ? AND badge_name =
\* 'first_model_selection'; is_first_selection = (count == 0)
IsFirstSelection(badges, user_id) ==
    CopiesIn(<< user_id, "first_model_selection" >>, badges) = 0

----------------------------------------------------------------------------
(* Leaderboard: the query of process_leaderboard_full *)

Max(S) == CHOOSE x \in S : \A y \in S : y <= x

\* GROUP BY user_id, user_full_name, user_email
GroupKeys(subs) ==
    {<< subs[i].user_id, subs[i].user_full_name, subs[i].user_email >> : i \in DOMAIN subs}

GroupRows(subs, key) ==
    {i \in DOMAIN subs :
        << subs[i].user_id, subs[i].user_full_name, subs[i].user_email >> = key}

LeaderboardRow(subs, key) ==
    LET rows == GroupRows(subs, key)
        selected == {i \in rows : subs[i].is_selected}
        best_private_score == Max({subs[i].private_score : i \in rows})
    IN  [user_id |-> key[1],
         user_full_name |-> key[2],
         total_submissions |-> Cardinality(rows),
         \* COALESCE(MAX(CASE WHEN is_selected = 1 THEN private_score END),
         \*          MAX(private_score))
         final_score |-> IF selected # {}
                         THEN Max({subs[i].private_score : i \in selected})
                         ELSE best_private_score,
         best_public_score |-> Max({subs[i].public_score : i \in rows}),
         best_private_score |-> best_private_score]

process_leaderboard_full(subs) == {LeaderboardRow(subs, key) : key \in GroupKeys(subs)}

----------------------------------------------------------------------------
(* process_leaderboard_public: the best public score of every group of
   GROUP BY user_id, user_full_name, UNION ALL the fake submissions, ORDER BY
   best_public DESC.  The response shows name and best_public; the model keeps
   with each row the group or the fake submission it came from.  The order of
   rows with equal scores is not fixed by the query: every order is possible. *)

PublicGroupKeys(subs) ==
    {<< subs[i].user_id, subs[i].user_full_name >> : i \in DOMAIN subs}

real_submissions(subs) ==
    { [source |-> "real", user_id |-> key[1], name |-> key[2],
       best_public |-> Max({subs[i].public_score :
                              i \in {j \in DOMAIN subs :
                                        << subs[j].user_id, subs[j].user_full_name >> = key}})] :
          key \in PublicGroupKeys(subs) }

fake_submissions_(fakes) ==
    { [source |-> "fake", user_id |-> 0, name |-> r.name, best_public |-> r.public_score] :
          r \in fakes }

process_leaderboard_public(subs, fakes) ==
    LET combined == real_submissions(subs) \cup fake_submissions_(fakes)
    IN  { board \in [1 .. Cardinality(combined) -> combined] :
            /\ \A i, j \in DOMAIN board : i # j => board[i] # board[j]
            /\ \A i, j \in DOMAIN board :
                  i < j => board[i].best_public >= board[j].best_public }

----------------------------------------------------------------------------
(* process_duplicates: GROUP BY file_checksum HAVING COUNT(DISTINCT user_id) > 1 *)

RowsOfChecksum(subs, checksum) ==
    {i \in DOMAIN subs : subs[i].file_checksum = checksum}

\* the bug: HAVING COUNT(*) > 1, every row of the group counts
RowsCountedAsUsers(subs, checksum) == RowsOfChecksum(subs, checksum)

\* COUNT(DISTINCT user_id) of the group
DistinctUsers(subs, checksum) ==
    {subs[i].user_id : i \in RowsOfChecksum(subs, checksum)}

process_duplicates(subs) ==
    { [file_checksum |-> checksum,
       count |-> Cardinality(RowsOfChecksum(subs, checksum)),
       users |-> {subs[i].user_email : i \in RowsOfChecksum(subs, checksum)}] :
         checksum \in {c \in {subs[i].file_checksum : i \in DOMAIN subs} :
                          Cardinality(DistinctUsers(subs, c)) > 1} }

----------------------------------------------------------------------------
(* Handlers *)

MaxHandlers == 2
Handlers == 1 .. MaxHandlers

NoReq == [cmd |-> "none"]
NoObs == [seen |-> FALSE]

Idle == \A h \in Handlers : pc[h] = "idle"
NoOpenTxn == \A h \in Handlers : ~ txn[h].open

\* the threshold list of create_config_template, rescaled to the scores of the
\* model's master data
DefaultThresholds ==
    << [min_score |-> 3, category |-> "excellent"],
       [min_score |-> 2, category |-> "good"],
       [min_score |-> 0, category |-> "basic"] >>

\* config["competition"]["deadline"], in ticks of now
Deadline == 1

\* config["teachers"]: user 0 is the teacher
teachers == {Email(0)}

\* the bug: every sender is taken for a student
NobodyIsTeacher(email) == FALSE

is_teacher(email) == email \in config.teachers

\* the senders that the configuration lists as teachers
Teachers == {u \in {0} \cup Users : Email(u) \in teachers}

\* the columns that load_master_data requires of the master file
expected_cols == {"id", "clase_binaria", "dataset"}

InitConfig(threshold_lists, master_datasets) ==
    /\ config \in [gain_thresholds : threshold_lists,
                   gain_matrix : {gain_matrix},
                   master_columns : {expected_cols},
                   master_df : master_datasets,
                   deadline : {Deadline},
                   teachers : {teachers}]
    /\ now = 0
    /\ started = << 0 >>
    /\ fake_submissions = {}
    /\ submissions = << >>
    /\ user_badges = EmptyBag
    /\ response = NoResponse
    /\ client = 0
    /\ sent = NoResponse
    /\ service = "serving"
    /\ last_eval = NoCall
    /\ first_selected = {}
    /\ unlocked = EmptyBag
    /\ pc = [h \in Handlers |-> "idle"]
    /\ req = [h \in Handlers |-> NoReq]
    /\ txn = [h \in Handlers |-> NoTxn]
    /\ observed = NoObs

InitWith(threshold_lists) == InitConfig(threshold_lists, {master_df})

Init == InitWith({DefaultThresholds})

ConcUnchanged == UNCHANGED << pc, req, txn, observed >>

\* "Error interno del bot. El administrador ha sido notificado."
InternalError(u) == [to |-> u, kind |-> "internal_error"]

\* a step that sends nothing
NoDelivery == sent' = NoResponse /\ UNCHANGED << client, service >>

(* The end of handle_message for a handler that returned response', and for
   the steps of a handler that has not returned yet (nothing is sent).  The
   response is sent inside the try block; a send_message that raises takes
   the except block, which sends the internal error with a send_message of
   its own, outside any try: when that one raises too the exception leaves
   handle_message and call_on_each_message, and run() raises it again. *)
Deliver ==
    IF response' = NoResponse
    THEN NoDelivery
    ELSE /\ sent' = IF client = 0 THEN response'
                    ELSE IF client = 1 THEN InternalError(response'.to) ELSE NoResponse
         /\ service' = IF client >= 2 THEN "stopped" ELSE service
         /\ client' = IF client >= 2 THEN client - 2 ELSE 0

(* process_submit.  The deadline is checked first, for a student only; then the
   file is parsed and its identifiers are validated; a teacher gets the report
   and nothing is stored; a student's submission is stored and evaluated. *)
deadline_expired(teacher) == ~ teacher /\ now > config.deadline

SubmitExpired(u) ==
    /\ deadline_expired(is_teacher(Email(u)))
    /\ response' = [to |-> u, kind |-> "deadline_expired"]
    /\ last_eval' = NoCall
    /\ UNCHANGED << config, now, started, fake_submissions, submissions, user_badges, first_selected, unlocked >>
    /\ ConcUnchanged
    /\ Deliver

SubmitInvalidFile(u, name, file_content) ==
    /\ ~ deadline_expired(is_teacher(Email(u)))
    /\ invalid_ids(PredictedIds(file_content)) # {}
    /\ response' = [to |-> u, kind |-> "invalid_ids",
                    count |-> Cardinality(invalid_ids(PredictedIds(file_content)))]
    /\ last_eval' = NoCall
    /\ UNCHANGED << config, now, started, fake_submissions, submissions, user_badges, first_selected, unlocked >>
    /\ ConcUnchanged
    /\ Deliver

SubmitTeacher(u, name, file_content) ==
    /\ is_teacher(Email(u))
    /\ invalid_ids(PredictedIds(file_content)) = {}
    /\ LET results == calculate_scores(PredictedIds(file_content))
       IN  response' = [to |-> u, kind |-> "report",
                        public_score |-> results.public.score,
                        private_score |-> results.private.score,
                        threshold_category |->
                            get_threshold_category(config.gain_thresholds,
                                                   results.public.score),
                        positives_predicted |-> Cardinality(PredictedIds(file_content)),
                        tp |-> results.private.tp, tn |-> results.private.tn,
                        fp |-> results.private.fp, fn |-> results.private.fn]
    /\ last_eval' = NoCall
    /\ UNCHANGED << config, now, started, fake_submissions, submissions, user_badges, first_selected, unlocked >>
    /\ ConcUnchanged
    /\ Deliver

\* the count taken before the new row is in the table
CountBeforeSave(subs, user_id) == Cardinality(RowsOfUser(subs, user_id)) - 1

\* SELECT COUNT(*) FROM submissions WHERE user_id = ?, after save_submission
CountSubmissions(subs, user_id) == Cardinality(RowsOfUser(subs, user_id))

SubmitFile(u, name, file_content) ==
    /\ ~ is_teacher(Email(u))
    /\ ~ deadline_expired(is_teacher(Email(u)))
    /\ invalid_ids(PredictedIds(file_content)) = {}
    /\ LET predicted_positive_ids == PredictedIds(file_content)
           results == calculate_scores(predicted_positive_ids)
           threshold_category ==
               get_threshold_category(config.gain_thresholds, results.public.score)
           user_info == [user_id |-> u, email |-> Email(u), full_name |-> name]
           saved == save_submission(submissions, user_info, sha256(file_content),
                                    results.public, results.private,
                                    Cardinality(predicted_positive_ids),
                                    threshold_category)
           \* SELECT COUNT(*) FROM submissions WHERE user_id = ?
           submission_count == CountSubmissions(saved, u)
           ev == check_and_award_badges(saved, user_badges, config.gain_thresholds, u,
                                        submission_count, results.public.score, FALSE)
       IN  /\ submissions' = saved
           /\ user_badges' = ev.rows
           /\ last_eval' = EvalRecord(ev)
           /\ response' = [to |-> u, kind |-> "submitted",
                           id |-> saved[Len(saved)].id,
                           public_score |-> results.public.score,
                           new_badges |-> ev.new_badges]
    /\ UNCHANGED << config, now, started, fake_submissions, first_selected, unlocked >>
    /\ ConcUnchanged
    /\ Deliver

\* a submit of the file that lists a set of identifiers
SubmitInvalid(u, name, predicted_positive_ids) ==
    SubmitInvalidFile(u, name, CsvOf(predicted_positive_ids))

Submit(u, name, predicted_positive_ids) ==
    SubmitFile(u, name, CsvOf(predicted_positive_ids))

(* process_select, "select <id>" with a numeric id *)
SelectNotFound(u, submission_id) ==
    /\ ~ OwnsSubmission(submissions, u, submission_id)
    /\ response' = [to |-> u, kind |-> "not_found"]
    /\ last_eval' = NoCall
    /\ UNCHANGED << config, now, started, fake_submissions, submissions, user_badges, first_selected, unlocked >>
    /\ ConcUnchanged
    /\ Deliver

Select(u, submission_id) ==
    /\ OwnsSubmission(submissions, u, submission_id)
    /\ LET selected == SetSelection(ClearSelection(submissions, u), u, submission_id)
           is_first_selection == IsFirstSelection(user_badges, u)
           ev == check_and_award_badges(selected, user_badges, config.gain_thresholds,
                                        u, 0, 0, TRUE)
       IN  /\ submissions' = selected
           /\ first_selected' = first_selected \cup {u}
           /\ IF is_first_selection
              THEN /\ user_badges' = ev.rows
                   /\ last_eval' = EvalRecord(ev)
                   /\ unlocked' = unlocked (+) SetToBag({u})
                   /\ response' = [to |-> u, kind |-> "selected_unlocked",
                                   id |-> submission_id]
              ELSE /\ last_eval' = NoCall
                   /\ response' = [to |-> u, kind |-> "selected", id |-> submission_id]
                   /\ UNCHANGED << user_badges, unlocked >>
    /\ UNCHANGED << config, now, started, fake_submissions >>
    /\ ConcUnchanged
    /\ Deliver

(* process_select, "select <text>": int() raises ValueError *)
SelectNotANumber(u) ==
    /\ response' = [to |-> u, kind |-> "not_a_number"]
    /\ last_eval' = NoCall
    /\ UNCHANGED << config, now, started, fake_submissions, submissions, user_badges, first_selected, unlocked >>
    /\ ConcUnchanged
    /\ Deliver

(* The student commands, with the senders, the full names, the files and the
   number of stored submissions a specification lets happen *)
StudentCommands(senders, names, files, max_subs) ==
    \/ \E u \in senders, name \in names, ids \in files :
          /\ Len(submissions) < max_subs
          /\ Submit(u, name, ids)
    \/ \E u \in senders, name \in names, ids \in files : SubmitInvalid(u, name, ids)
    \/ \E u \in senders, id \in 1 .. Len(submissions) + 1 : SelectNotFound(u, id)
    \/ \E u \in senders, id \in 1 .. Len(submissions) : Select(u, id)
    \/ \E u \in senders : SelectNotANumber(u)

\* the commands that write to the store: a submit of a valid file and a select
\* of an own submission
StoreCommands(senders, names, files, max_subs) ==
    \/ \E u \in senders, name \in names, ids \in files :
          /\ Len(submissions) < max_subs
          /\ Submit(u, name, ids)
    \/ \E u \in senders, id \in 1 .. Len(submissions) : Select(u, id)

PublicIds == {public_df[i].id : i \in DOMAIN public_df}
PrivateIds == {private_df[i].id : i \in DOMAIN private_df}

\* files that predict every private identifier and differ in the public
\* identifiers they predict, and one with an unknown identifier
PublicFiles == {ids \cup PrivateIds : ids \in SUBSET PublicIds} \cup {{9}}

\* files that predict every public identifier and differ in the private
\* identifiers they predict
PrivateFiles == {ids \cup PublicIds : ids \in SUBSET PrivateIds}

Next == StudentCommands(Users, {"name_a"}, PublicFiles, MaxSubs)

Spec == Init /\ [][Next]_vars

(* The competition under each of the threshold lists *)
InitThresholds == InitWith(ThresholdConfigs)

NextThresholds == StoreCommands(Users, {"name_a"}, PublicFiles, MaxSubs)

SpecThresholds == InitThresholds /\ [][NextThresholds]_vars

(* The leaderboard: users that rename themselves, files that differ in their
   private score *)
MaxBoardSubs == 2

NextBoard == StoreCommands(Users, FullNames, PrivateFiles, MaxBoardSubs)

SpecBoard == Init /\ [][NextBoard]_vars

(* The rank among the selected submissions: enough users to fill the first
   TopRank places, submitting in turn *)
MaxRankUsers == 5
MaxRankSubs == 6
RankUsers == 1 .. MaxRankUsers

RankTurn == (Len(submissions) % MaxRankUsers) + 1

NextRank ==
    \/ \E ids \in PublicFiles :
          /\ Len(submissions) < MaxRankSubs
          /\ Submit(RankTurn, "name_a", ids)
    \/ \E u \in RankUsers, id \in 1 .. Len(submissions) : Select(u, id)

SpecRank == Init /\ [][NextRank]_vars

(* check_and_award_badges called directly, as the unit tests call it, with any
   submission count and score, for one user *)
EvaluateCall(u, submission_count, public_score, is_first_selection) ==
    /\ LET ev == check_and_award_badges(submissions, user_badges,
                                        config.gain_thresholds, u, submission_count,
                                        public_score, is_first_selection)
       IN  /\ user_badges' = ev.rows
           /\ last_eval' = EvalRecord(ev)
    /\ response' = NoResponse
    /\ UNCHANGED << config, now, started, fake_submissions, submissions, first_selected, unlocked >>
    /\ ConcUnchanged
    /\ NoDelivery

MaxEvalSubs == 2
EvalUsers == {1}
EvalCounts == {1, 2, 10, 11, 50, 100}
EvalScores == {-2, 2}

NextEval ==
    \/ StoreCommands(EvalUsers, {"name_a"}, PublicFiles, MaxEvalSubs)
    \/ \E u \in EvalUsers, c \in EvalCounts, score \in EvalScores, first \in BOOLEAN :
          EvaluateCall(u, c, score, first)

SpecEval == Init /\ [][NextEval]_vars

----------------------------------------------------------------------------
(* process_fake_submit: the teacher's reference rows of the public
   leaderboard.  name is UNIQUE: a second add of a name raises IntegrityError. *)

(* The fake table without its UNIQUE constraint on name: no stored row is
   ever found to carry the name being added *)
NoFakeNamed(fakes, name) == {}

FakeNamed(fakes, name) == {r \in fakes : r.name = name}

FakeSubmitAdd(u, name, public_score) ==
    /\ IF FakeNamed(fake_submissions, name) = {}
       THEN /\ fake_submissions' = fake_submissions \cup
                   {[name |-> name, public_score |-> public_score,
                     threshold_category |->
                         get_threshold_category(config.gain_thresholds, public_score)]}
            /\ response' = [to |-> u, kind |-> "fake_added", name |-> name,
                            public_score |-> public_score]
       ELSE /\ response' = [to |-> u, kind |-> "fake_exists", name |-> name]
            /\ UNCHANGED fake_submissions
    /\ last_eval' = NoCall
    /\ UNCHANGED << config, now, started, submissions, user_badges, first_selected, unlocked >>
    /\ ConcUnchanged
    /\ Deliver

(* DELETE without its WHERE clause *)
DeleteEveryFake(fakes, name) == {}

(* DELETE FROM fake_submissions WHERE name = ? *)
DeleteFake(fakes, name) == fakes \ FakeNamed(fakes, name)

FakeSubmitRemove(u, name) ==
    /\ IF FakeNamed(fake_submissions, name) # {}
       THEN /\ fake_submissions' = DeleteFake(fake_submissions, name)
            /\ response' = [to |-> u, kind |-> "fake_removed", name |-> name]
       ELSE /\ response' = [to |-> u, kind |-> "fake_not_found", name |-> name]
            /\ UNCHANGED fake_submissions
    /\ last_eval' = NoCall
    /\ UNCHANGED << config, now, started, submissions, user_badges, first_selected, unlocked >>
    /\ ConcUnchanged
    /\ Deliver

FakeCommands(names, scores) ==
    \/ \E u \in Teachers, name \in names, public_score \in scores :
          FakeSubmitAdd(u, name, public_score)
    \/ \E u \in Teachers, name \in names : FakeSubmitRemove(u, name)

(* The classification of any score under any threshold list: the thresholds
   of the template in every order, and every non-empty part of them *)
ClassifyThresholds ==
    { [min_score |-> 4, category |-> "excellent"],
      [min_score |-> 2, category |-> "good"],
      [min_score |-> 0, category |-> "basic"] }

ClassifyConfigs ==
    { list \in UNION {[1 .. n -> ClassifyThresholds] :
                         n \in 1 .. Cardinality(ClassifyThresholds)} :
        \A i, j \in DOMAIN list : i # j => list[i] # list[j] }

MaxFakeScore == 5
FakeScores == -1 .. MaxFakeScore
FakeNames == {"fake_a", "fake_b"}

(* Threshold lists in which two categories have the same min_score, in every
   order and with a higher and a lower threshold around them *)
TieThresholds ==
    { [min_score |-> 4, category |-> "excellent"],
      [min_score |-> 2, category |-> "good"],
      [min_score |-> 2, category |-> "fair"],
      [min_score |-> 0, category |-> "basic"] }

TieConfigs ==
    { list \in UNION {[1 .. n -> TieThresholds] : n \in 2 .. 3} :
        /\ \A i, j \in DOMAIN list : i # j => list[i] # list[j]
        /\ \E i, j \in DOMAIN list :
              i # j /\ list[i].min_score = list[j].min_score }

InitTie == InitWith(TieConfigs)

InitFake == InitWith(ClassifyConfigs)

NextFake == FakeCommands(FakeNames, FakeScores)

SpecFake == InitFake /\ [][NextFake]_vars

SpecTie == InitTie /\ [][NextFake]_vars

(* The whole bot: the submit of a student or of the teacher at any time, the
   select, the fake submissions, the clock, and a restart of the bot process
   on the same database *)
process_submit(u, name, file_content, max_subs) ==
    \/ SubmitExpired(u)
    \/ SubmitInvalidFile(u, name, file_content)
    \/ SubmitTeacher(u, name, file_content)
    \/ /\ Len(submissions) < max_subs
       /\ SubmitFile(u, name, file_content)

MaxTime == 2

Tick ==
    /\ now < MaxTime
    /\ now' = now + 1
    /\ response' = NoResponse
    /\ last_eval' = NoCall
    /\ UNCHANGED << config, started, fake_submissions, submissions, user_badges, first_selected, unlocked >>
    /\ ConcUnchanged
    /\ NoDelivery

\* main(): a new OraculusBot on the database of the previous one.  CREATE TABLE
\* IF NOT EXISTS keeps the tables; what a handler had not committed is lost.
MaxStarts == 2

Restart ==
    /\ Len(started) < MaxStarts
    /\ started' = Append(started, Len(submissions))
    /\ pc' = [h \in Handlers |-> "idle"]
    /\ req' = [h \in Handlers |-> NoReq]
    /\ txn' = [h \in Handlers |-> NoTxn]
    /\ observed' = NoObs
    /\ response' = NoResponse
    /\ last_eval' = NoCall
    /\ UNCHANGED << config, now, fake_submissions, submissions, user_badges, first_selected, unlocked >>
    /\ service' = "serving"
    /\ sent' = NoResponse
    /\ UNCHANGED client

MaxSubmitSubs == 2
SubmitSenders == {0, 1}

\* two files with the same identifiers in different bytes, files with fewer
\* identifiers (one naming its identifier twice), and files with one and with
\* two unknown identifiers
SubmitFiles == { << 1, 2 >>, << 2, 1 >>, << 2 >>, << 2, 2 >>, << 9 >>, << 1, 9, 10 >> }

NextSubmit ==
    \/ \E u \in SubmitSenders, file_content \in SubmitFiles :
          process_submit(u, "name_a", file_content, MaxSubmitSubs)
    \/ Tick

SpecSubmit == Init /\ [][NextSubmit]_vars

(* The store over the processes that use it: submits and selects of the
   students, the teacher's fake submissions, restarts *)
MaxSessionSubs == 3
SessionUsers == {1}
SessionFiles == { << 1, 2 >>, << 2, 1 >>, << 2 >> }

NextSession ==
    \/ \E u \in SessionUsers, file_content \in SessionFiles :
          /\ Len(submissions) < MaxSessionSubs
          /\ SubmitFile(u, "name_a", file_content)
    \/ \E u \in SessionUsers, id \in 1 .. Len(submissions) : Select(u, id)
    \/ FakeCommands(FakeNames, {2})
    \/ Restart

SpecSession == Init /\ [][NextSession]_vars

(* The teacher's public leaderboard over the submissions of students who may
   rename themselves, and the fake submissions *)
LeaderboardPublic(u) ==
    /\ \E board \in process_leaderboard_public(submissions, fake_submissions) :
          response' = [to |-> u, kind |-> "leaderboard_public", rows |-> board,
                       categories |->
                           [i \in DOMAIN board |->
                               get_threshold_category(config.gain_thresholds,
                                                      board[i].best_public)]]
    /\ last_eval' = NoCall
    /\ UNCHANGED << config, now, started, fake_submissions, submissions, user_badges, first_selected, unlocked >>
    /\ ConcUnchanged
    /\ Deliver

MaxPublicSubs == 2
PublicFakeScores == {0, 2}

NextPublic ==
    \/ \E u \in Users, name \in FullNames, ids \in PublicFiles :
          /\ Len(submissions) < MaxPublicSubs
          /\ Submit(u, name, ids)
    \/ FakeCommands(FakeNames, PublicFakeScores)
    \/ \E u \in Teachers : LeaderboardPublic(u)

SpecPublic == Init /\ [][NextPublic]_vars

(* main() after the configuration file was edited: the new OraculusBot reads
   the thresholds of the file as it is now and finds the tables of the
   previous one *)
ReconfThresholds ==
    { DefaultThresholds,
      << [min_score |-> 2, category |-> "excellent"],
         [min_score |-> 0, category |-> "basic"] >> }

RestartWithConfig(threshold_lists) ==
    /\ Len(started) < MaxStarts
    /\ \E thresholds \in threshold_lists :
          config' = [config EXCEPT !.gain_thresholds = thresholds]
    /\ started' = Append(started, Len(submissions))
    /\ pc' = [h \in Handlers |-> "idle"]
    /\ req' = [h \in Handlers |-> NoReq]
    /\ txn' = [h \in Handlers |-> NoTxn]
    /\ observed' = NoObs
    /\ response' = NoResponse
    /\ last_eval' = NoCall
    /\ UNCHANGED << now, fake_submissions, submissions, user_badges, first_selected, unlocked >>
    /\ service' = "serving"
    /\ sent' = NoResponse
    /\ UNCHANGED client

MaxReconfSubs == 2

NextReconf ==
    \/ \E u \in Users, ids \in PublicFiles :
          /\ Len(submissions) < MaxReconfSubs
          /\ Submit(u, "name_a", ids)
    \/ FakeCommands(FakeNames, PublicFakeScores)
    \/ \E u \in Teachers : LeaderboardPublic(u)
    \/ RestartWithConfig(ReconfThresholds)

SpecReconf == Init /\ [][NextReconf]_vars

(* The teacher's duplicates report over the submissions of two students who
   upload the same bytes, or the same identifiers in other bytes *)
Duplicates(u) ==
    /\ response' = [to |-> u, kind |-> "duplicates", groups |-> process_duplicates(submissions)]
    /\ last_eval' = NoCall
    /\ UNCHANGED << config, now, started, fake_submissions, submissions, user_badges, first_selected, unlocked >>
    /\ ConcUnchanged
    /\ Deliver

MaxDupSubs == 4
DupFiles == { << 1, 2 >>, << 2, 1 >> }

NextDup ==
    \/ \E u \in Users, file_content \in DupFiles :
          /\ Len(submissions) < MaxDupSubs
          /\ SubmitFile(u, "name_a", file_content)
    \/ \E u \in Teachers : Duplicates(u)

SpecDup == Init /\ [][NextDup]_vars

(* calculate_scores called directly, as the unit tests call it, with any set
   of identifiers, on every master dataset of up to MaxRows rows: row i has
   identifier i, either label and either partition *)
MaxRows == 3

MasterDatasets ==
    UNION {[1 .. n -> [id : 1 .. MaxRows, clase_binaria : {0, 1},
                       dataset : {"public", "private"}]] : n \in 0 .. MaxRows}

InitScore ==
    InitConfig({DefaultThresholds},
               {df \in MasterDatasets : \A i \in DOMAIN df : df[i].id = i})

ScoreCall(predicted_positive_ids) ==
    /\ response' = [kind |-> "scores", predicted |-> predicted_positive_ids,
                    results |-> calculate_scores(predicted_positive_ids)]
    /\ last_eval' = NoCall
    /\ UNCHANGED << config, now, started, fake_submissions, submissions, user_badges, first_selected, unlocked >>
    /\ ConcUnchanged
    /\ NoDelivery

NextScore == \E predicted_positive_ids \in SUBSET (1 .. MaxRows) :
                ScoreCall(predicted_positive_ids)

SpecScore == InitScore /\ [][NextScore]_vars

----------------------------------------------------------------------------
(* Concurrent handlers.  Every handler opens its own connection
   (_get_db_connection), each SQL statement is one step, and a reader sees the
   committed tables only.  A connection of the sqlite3 module opens a
   transaction before its first UPDATE or INSERT and keeps the database's write
   lock until conn.commit(); a second writer waits for the lock and, when the
   wait times out, gets sqlite3.OperationalError (database is locked). *)

\* the bug: a connection in autocommit mode, every UPDATE is committed at once
CommittedAtOnce(committed, view) == view

\* what the other connections see of an UPDATE before conn.commit(): nothing
CommittedAfterUpdate(committed, view) == committed

WriteLockFree == \A h \in Handlers : ~ txn[h].open

\* In these steps response, last_eval and observed hold what the step itself
\* returned, evaluated or read, and nothing when it did not.
Finish(h, resp) ==
    /\ pc' = [pc EXCEPT ![h] = "idle"]
    /\ req' = [req EXCEPT ![h] = NoReq]
    /\ response' = resp

Silent == response' = NoResponse /\ last_eval' = NoCall /\ observed' = NoObs

\* SELECT id FROM submissions WHERE id = ? AND user_id = ?
SelCheck(h, u, submission_id) ==
    /\ pc[h] = "idle"
    /\ IF OwnsSubmission(submissions, u, submission_id)
       THEN /\ pc' = [pc EXCEPT ![h] = "sel_clear"]
            /\ req' = [req EXCEPT ![h] = [cmd |-> "select", user_id |-> u,
                                          submission_id |-> submission_id]]
            /\ response' = NoResponse
       ELSE /\ response' = [to |-> u, kind |-> "not_found"]
            /\ UNCHANGED << pc, req >>
    /\ last_eval' = NoCall /\ observed' = NoObs
    /\ UNCHANGED << config, now, started, fake_submissions, submissions, user_badges, first_selected, unlocked, txn >>
    /\ Deliver

\* UPDATE submissions SET is_selected = FALSE WHERE user_id = ?
SelClear(h) ==
    /\ pc[h] = "sel_clear"
    /\ WriteLockFree
    /\ LET view == ClearSelection(submissions, req[h].user_id)
       IN  /\ txn' = [txn EXCEPT ![h] = [open |-> TRUE, submissions |-> view]]
           /\ submissions' = CommittedAfterUpdate(submissions, view)
    /\ pc' = [pc EXCEPT ![h] = "sel_set"]
    /\ Silent
    /\ UNCHANGED << config, now, started, fake_submissions, user_badges, first_selected, unlocked, req >>
    /\ Deliver

\* UPDATE submissions SET is_selected = TRUE WHERE id = ? AND user_id = ?
SelSet(h) ==
    /\ pc[h] = "sel_set"
    /\ LET view == SetSelection(txn[h].submissions, req[h].user_id,
                                req[h].submission_id)
       IN  /\ txn' = [txn EXCEPT ![h] = [open |-> TRUE, submissions |-> view]]
           /\ submissions' = CommittedAfterUpdate(submissions, view)
    /\ pc' = [pc EXCEPT ![h] = "sel_commit"]
    /\ Silent
    /\ UNCHANGED << config, now, started, fake_submissions, user_badges, first_selected, unlocked, req >>
    /\ Deliver

\* SELECT COUNT(*) FROM user_badges ...; conn.commit()
SelCommit(h) ==
    /\ pc[h] = "sel_commit"
    /\ submissions' = txn[h].submissions
    /\ txn' = [txn EXCEPT ![h] = NoTxn]
    /\ first_selected' = first_selected \cup {req[h].user_id}
    /\ IF IsFirstSelection(user_badges, req[h].user_id)
       THEN /\ pc' = [pc EXCEPT ![h] = "ev_rank"]
            /\ req' = [req EXCEPT ![h] =
                          [cmd |-> "select", user_id |-> req[h].user_id,
                           submission_id |-> req[h].submission_id,
                           submission_count |-> 0, public_score |-> 0,
                           is_first_selection |-> TRUE]]
            /\ response' = NoResponse
       ELSE Finish(h, [to |-> req[h].user_id, kind |-> "selected",
                       id |-> req[h].submission_id])
    /\ last_eval' = NoCall /\ observed' = NoObs
    /\ UNCHANGED << config, now, started, fake_submissions, user_badges, unlocked >>
    /\ Deliver

\* the wait for the write lock times out: except Exception -> "Error: ..."
SelLocked(h) ==
    /\ pc[h] = "sel_clear"
    /\ ~ WriteLockFree
    /\ Finish(h, [to |-> req[h].user_id, kind |-> "error"])
    /\ last_eval' = NoCall /\ observed' = NoObs
    /\ UNCHANGED << config, now, started, fake_submissions, submissions, user_badges, first_selected, unlocked, txn >>
    /\ Deliver

(* check_and_award_badges, statement by statement *)

\* SELECT COUNT(*) FROM submissions WHERE public_score > ? AND is_selected = TRUE
EvRank(h) ==
    /\ pc[h] = "ev_rank"
    /\ pc' = [pc EXCEPT ![h] = "ev_high"]
    /\ req' = [req EXCEPT ![h] =
                  [cmd |-> "select", user_id |-> req[h].user_id,
                   submission_id |-> req[h].submission_id,
                   submission_count |-> req[h].submission_count,
                   public_score |-> req[h].public_score,
                   is_first_selection |-> req[h].is_first_selection,
                   top |-> TopFiveBadge(submissions, req[h].public_score)]]
    /\ Silent
    /\ UNCHANGED << config, now, started, fake_submissions, submissions, user_badges, first_selected, unlocked, txn >>
    /\ Deliver

\* SELECT COUNT(*) FROM submissions WHERE user_id = ? AND public_score >= ?
EvHigh(h) ==
    /\ pc[h] = "ev_high"
    /\ pc' = [pc EXCEPT ![h] = "ev_insert"]
    /\ req' = [req EXCEPT ![h] =
                  [cmd |-> "select", user_id |-> req[h].user_id,
                   submission_id |-> req[h].submission_id,
                   submission_count |-> req[h].submission_count,
                   public_score |-> req[h].public_score,
                   is_first_selection |-> req[h].is_first_selection,
                   badges_to_award |->
                       (IF req[h].submission_count = 1
                        THEN << "first_submission" >> ELSE << >>)
                       \o (IF req[h].is_first_selection
                           THEN << "first_model_selection" >> ELSE << >>)
                       \o CountBadges(badge_thresholds, req[h].submission_count)
                       \o req[h].top
                       \o HighThresholdBadge(submissions, config.gain_thresholds,
                                             req[h].user_id, req[h].public_score)]]
    /\ Silent
    /\ UNCHANGED << config, now, started, fake_submissions, submissions, user_badges, first_selected, unlocked, txn >>
    /\ Deliver

\* the INSERT loop: the first INSERT opens the transaction
EvInsert(h) ==
    /\ pc[h] = "ev_insert"
    /\ WriteLockFree
    /\ LET inserted == InsertBadges(user_badges, req[h].user_id, req[h].badges_to_award)
       IN  txn' = [txn EXCEPT ![h] = [open |-> req[h].badges_to_award # << >>,
                                      user_badges |-> inserted.rows,
                                      new_badges |-> inserted.new_badges]]
    /\ pc' = [pc EXCEPT ![h] = "ev_commit"]
    /\ Silent
    /\ UNCHANGED << config, now, started, fake_submissions, submissions, user_badges, first_selected, unlocked, req >>
    /\ Deliver

\* the wait of the first INSERT for the write lock times out: the
\* OperationalError leaves check_and_award_badges and process_select catches it
EvLocked(h) ==
    /\ pc[h] = "ev_insert"
    /\ ~ WriteLockFree
    /\ req[h].badges_to_award # << >>
    /\ Finish(h, [to |-> req[h].user_id, kind |-> "error"])
    /\ last_eval' = NoCall /\ observed' = NoObs
    /\ UNCHANGED << config, now, started, fake_submissions, submissions, user_badges, first_selected, unlocked, txn >>
    /\ Deliver

\* conn.commit(); return new_badges; process_select answers with the badge
EvCommit(h) ==
    /\ pc[h] = "ev_commit"
    /\ user_badges' = txn[h].user_badges
    /\ txn' = [txn EXCEPT ![h] = NoTxn]
    /\ last_eval' = [called |-> TRUE, user_id |-> req[h].user_id,
                     submission_count |-> req[h].submission_count,
                     public_score |-> req[h].public_score,
                     is_first_selection |-> req[h].is_first_selection,
                     badges_to_award |-> req[h].badges_to_award,
                     new_badges |-> txn[h].new_badges]
    /\ unlocked' = unlocked (+) SetToBag({req[h].user_id})
    /\ Finish(h, [to |-> req[h].user_id, kind |-> "selected_unlocked",
                  id |-> req[h].submission_id])
    /\ observed' = NoObs
    /\ UNCHANGED << config, now, started, fake_submissions, submissions, first_selected >>
    /\ Deliver

\* a reader: the query of process_list_submits, one SELECT on the committed table
ListSubmits(u) ==
    /\ observed' = [seen |-> TRUE, user_id |-> u,
                    stars |-> Cardinality(SelectedOfUser(submissions, u)),
                    in_select |-> \E h \in Handlers :
                                     /\ pc[h] \in {"sel_set", "sel_commit"}
                                     /\ req[h].user_id = u,
                    had_selection |-> u \in first_selected]
    /\ response' = NoResponse /\ last_eval' = NoCall
    /\ UNCHANGED << config, now, started, fake_submissions, submissions, user_badges, first_selected, unlocked,
                    pc, req, txn >>
    /\ Deliver

\* the handlers run commands of one user: the races are between the commands
\* of the same user
ConcUsers == {1}
MaxConcSubs == 2

\* a submit is one step here, taken when no transaction is open
ConcSubmit(u) ==
    /\ WriteLockFree
    /\ Len(submissions) < MaxConcSubs
    /\ Submit(u, "name_a", {1})

NextConc ==
    \/ \E u \in ConcUsers : ConcSubmit(u)
    \/ \E h \in Handlers, u \in ConcUsers, id \in 1 .. Len(submissions) + 1 :
          SelCheck(h, u, id)
    \/ \E h \in Handlers :
          \/ SelClear(h) \/ SelSet(h) \/ SelCommit(h) \/ SelLocked(h)
          \/ EvRank(h) \/ EvHigh(h) \/ EvInsert(h) \/ EvLocked(h) \/ EvCommit(h)
    \/ \E u \in ConcUsers : ListSubmits(u)

SpecConc == Init /\ [][NextConc]_vars

----------------------------------------------------------------------------
(* handle_message: the commands of the students and of the teachers, the
   answers that are sent, and what becomes of an exception *)

\* process_badges: SELECT badge_name, earned_at FROM user_badges WHERE user_id = ?
process_badges(badges, user_id) ==
    {b \in BadgeNames : << user_id, b >> \in BagToSet(badges)}

Badges(u) ==
    /\ response' = [kind |-> "badges", to |-> u,
                    badges |-> process_badges(user_badges, u)]
    /\ last_eval' = NoCall
    /\ UNCHANGED << config, now, started, fake_submissions, submissions, user_badges, first_selected, unlocked >>
    /\ ConcUnchanged
    /\ Deliver

\* ORDER BY timestamp ASC
OldestFirst(a, b) == a.timestamp <= b.timestamp

\* ORDER BY timestamp DESC
NewestFirst(a, b) == a.timestamp >= b.timestamp

\* SELECT ... FROM submissions, every row whoever sent it
RowsOfAnyUser(subs, user_id) == {subs[i] : i \in DOMAIN subs}

\* SELECT ... FROM submissions WHERE user_id = ?
ListedRows(subs, user_id) == {subs[i] : i \in RowsOfUser(subs, user_id)}

(* process_list_submits: the rows of the user in the order of the query.  The
   order of two rows of equal timestamp is not defined by the query: every
   order of them is a possible answer. *)
process_list_submits(subs, user_id) ==
    LET rows == ListedRows(subs, user_id)
        n == Cardinality(rows)
    IN  { list \in [1 .. n -> rows] :
            /\ \A i, j \in 1 .. n : i # j => list[i] # list[j]
            /\ \A i \in 1 .. n - 1 : NewestFirst(list[i], list[i + 1]) }

\* a line that also shows the private score of the row
ListLineWithPrivate(row) ==
    [id |-> row.id, timestamp |-> row.timestamp,
     threshold_category |-> row.threshold_category, is_selected |-> row.is_selected,
     private_score |-> row.private_score]

ListLine(row) ==
    [id |-> row.id, timestamp |-> row.timestamp,
     threshold_category |-> row.threshold_category, is_selected |-> row.is_selected]

ListSubmitsOf(u) ==
    /\ \E list \in process_list_submits(submissions, u) :
          response' = [kind |-> "list_submits", to |-> u,
                       lines |-> [i \in DOMAIN list |-> ListLine(list[i])]]
    /\ last_eval' = NoCall
    /\ UNCHANGED << config, now, started, fake_submissions, submissions, user_badges, first_selected, unlocked >>
    /\ ConcUnchanged
    /\ Deliver

LeaderboardFull(u) ==
    /\ response' = [to |-> u, kind |-> "leaderboard_full",
                    rows |-> process_leaderboard_full(submissions)]
    /\ last_eval' = NoCall
    /\ UNCHANGED << config, now, started, fake_submissions, submissions, user_badges, first_selected, unlocked >>
    /\ ConcUnchanged
    /\ Deliver

\* get_help_message(is_teacher): the help of the teachers or of the students
get_help_message(teacher) == IF teacher THEN "teacher_help" ELSE "student_help"

Help(u) ==
    /\ response' = [to |-> u, kind |-> "help",
                    text |-> get_help_message(is_teacher(Email(u)))]
    /\ last_eval' = NoCall
    /\ UNCHANGED << config, now, started, fake_submissions, submissions, user_badges, first_selected, unlocked >>
    /\ ConcUnchanged
    /\ Deliver

\* the commands of the students and those of the teachers
StudentOnly == {"badges", "list submits", "select"}
TeacherOnly == {"duplicates", "leaderboard full", "leaderboard public", "fake_submit"}

\* the chain of elif without its tests of is_teacher
RoutedToAnyRole(cmd, teacher) ==
    IF cmd \in {"submit"} \cup StudentOnly \cup TeacherOnly THEN cmd ELSE "help"

(* The branch of handle_message taken by a command: "submit" for everyone,
   the commands of the students for a sender that is not a teacher, those of
   the teachers for a teacher; "help" and everything else end in
   get_help_message(is_teacher). *)
Routed(cmd, teacher) ==
    IF cmd = "submit" THEN "submit"
    ELSE IF cmd \in StudentOnly /\ ~ teacher THEN cmd
    ELSE IF cmd \in TeacherOnly /\ teacher THEN cmd
    ELSE "help"

\* the handlers that let an exception of the store reach handle_message:
\* process_submit and process_select catch their own
Uncaught ==
    {"badges", "list submits", "duplicates", "leaderboard full",
     "leaderboard public", "fake_submit"}

(* The handler raised: the except block of handle_message sends the internal
   error; this send_message is in no try block. *)
DeliverError(u) ==
    /\ sent' = IF client = 0 THEN InternalError(u) ELSE NoResponse
    /\ service' = IF client >= 1 THEN "stopped" ELSE service
    /\ client' = IF client >= 1 THEN client - 1 ELSE 0

\* an sqlite3.Error in a handler that does not catch it, before any commit
HandlerRaises(u) ==
    /\ response' = NoResponse
    /\ last_eval' = NoCall
    /\ UNCHANGED << config, now, started, fake_submissions, submissions, user_badges, first_selected, unlocked >>
    /\ ConcUnchanged
    /\ DeliverError(u)

handle_message(u, content, max_subs) ==
    /\ service = "serving"
    /\ LET handler == Routed(content.cmd, is_teacher(Email(u)))
       IN  \/ /\ handler = "submit"
              /\ process_submit(u, content.name, content.file_content, max_subs)
           \/ handler = "badges" /\ Badges(u)
           \/ handler = "list submits" /\ ListSubmitsOf(u)
           \/ /\ handler = "select"
              /\ IF content.arg = "number"
                 THEN Select(u, content.id) \/ SelectNotFound(u, content.id)
                 ELSE SelectNotANumber(u)
           \/ handler = "duplicates" /\ Duplicates(u)
           \/ handler = "leaderboard full" /\ LeaderboardFull(u)
           \/ handler = "leaderboard public" /\ LeaderboardPublic(u)
           \/ /\ handler = "fake_submit"
              /\ IF content.action = "add"
                 THEN FakeSubmitAdd(u, content.name, content.public_score)
                 ELSE FakeSubmitRemove(u, content.name)
           \/ handler = "help" /\ Help(u)
           \/ handler \in Uncaught /\ HandlerRaises(u)

(* The messages that the Zulip client hands to handle_message: of any type,
   from the teacher, the students and the bot itself.  A message that is not
   private, or that the bot sent, returns before anything is done. *)

\* config["zulip"]["email"]: the bot's own account, after those of the users
bot_id == MaxUsers + 1
bot_email == Email(bot_id)

Ignored(message) ==
    message.type # "private" \/ message.sender_email = bot_email

call_on_each_message(message, max_subs) ==
    IF Ignored(message)
    THEN /\ service = "serving"
         /\ response' = NoResponse
         /\ last_eval' = NoCall
         /\ UNCHANGED << config, now, started, fake_submissions, submissions,
                         user_badges, first_selected, unlocked >>
         /\ ConcUnchanged
         /\ NoDelivery
    ELSE handle_message(message.sender_id, message.content, max_subs)

\* the bot's own messages are the responses it sent; anyone can write to a stream
MessagesOf(users, contents) ==
    {[type |-> t, sender_email |-> Email(u), sender_id |-> u, content |-> c] :
        t \in {"private", "stream"}, u \in users, c \in contents}
    \cup {[type |-> "private", sender_email |-> bot_email, sender_id |-> bot_id,
           content |-> c] : c \in contents}

\* the connection to the Zulip server: the coming calls of send_message that raise
MaxSendFailures == 2

SendFailures(n) ==
    /\ service = "serving"
    /\ client' = n
    /\ UNCHANGED << config, now, started, fake_submissions, submissions, user_badges,
                    response, last_eval, first_selected, unlocked, sent, service >>
    /\ ConcUnchanged

(* The service: a teacher and a student send every command, the store and
   the connection may fail *)
MaxServiceSubs == 2
ServiceUsers == {0, 1}
ServiceFiles == { << 1, 2 >>, << 9 >> }

Contents ==
    {[cmd |-> c] : c \in {"badges", "list submits", "duplicates", "leaderboard full",
                          "leaderboard public", "help", "other"}}
    \cup {[cmd |-> "submit", name |-> "name_a", file_content |-> f] : f \in ServiceFiles}
    \cup {[cmd |-> "select", arg |-> "number", id |-> id] : id \in 1 .. MaxServiceSubs}
    \cup {[cmd |-> "select", arg |-> "text"]}
    \cup {[cmd |-> "fake_submit", action |-> a, name |-> "fake_a", public_score |-> 2] :
             a \in {"add", "remove"}}

ServiceMessages == MessagesOf(ServiceUsers, Contents)

NextService ==
    \/ \E message \in ServiceMessages :
          call_on_each_message(message, MaxServiceSubs)
    \/ \E n \in 0 .. MaxSendFailures : SendFailures(n)

SpecService == Init /\ [][NextService]_vars

----------------------------------------------------------------------------
(* Startup: OraculusBot.__init__ on any configuration file and master file *)

Cells == {"tp", "tn", "fp", "fn"}

\* gain_matrix["tp"] ... gain_matrix["fn"]: a missing key raises KeyError
GainMatrixComplete(gm) == Cells \subseteq DOMAIN gm

(* get_threshold_category returns for a list whose entries all have min_score
   and category and that is not empty: sorted() raises KeyError on an entry
   without min_score, and thresholds[-1] raises IndexError on an empty list *)
ThresholdsWellFormed(thresholds) ==
    /\ thresholds # << >>
    /\ \A i \in DOMAIN thresholds :
          {"min_score", "category"} \subseteq DOMAIN thresholds[i]

ScoringWorks ==
    /\ GainMatrixComplete(config.gain_matrix)
    /\ ThresholdsWellFormed(config.gain_thresholds)

\* the gain matrix of the template, whole or with one coefficient missing
StartupGainMatrices ==
    {[c \in keys |-> gain_matrix[c]] :
        keys \in {k \in SUBSET Cells : Cardinality(k) >= Cardinality(Cells) - 1}}

\* the default list, an empty list, and a list with an entry without min_score
StartupThresholds ==
    {DefaultThresholds, << >>, << [category |-> "basic"] >>}

\* the master file: complete, with its header and no row, with a row whose
\* dataset is neither "public" nor "private", with an id in a row of each
\* partition, without a column
StartupMasterFiles ==
    { [columns |-> expected_cols, rows |-> master_df],
      [columns |-> expected_cols, rows |-> << >>],
      [columns |-> expected_cols,
       rows |-> master_df \o << [id |-> 3, clase_binaria |-> 1, dataset |-> "test"] >>],
      [columns |-> expected_cols,
       rows |-> master_df \o << [id |-> 2, clase_binaria |-> 1, dataset |-> "public"] >>],
      [columns |-> {"id", "clase_binaria"},
       rows |-> << [id |-> 1, clase_binaria |-> 1] >>] }

InitStartup ==
    /\ \E gm \in StartupGainMatrices, thresholds \in StartupThresholds,
          file \in StartupMasterFiles :
          config = [gain_thresholds |-> thresholds, gain_matrix |-> gm,
                    master_columns |-> file.columns, master_df |-> file.rows,
                    deadline |-> Deadline, teachers |-> teachers]
    /\ now = 0
    /\ started = << 0 >>
    /\ fake_submissions = {}
    /\ submissions = << >>
    /\ user_badges = EmptyBag
    /\ response = NoResponse
    /\ client = 0
    /\ sent = NoResponse
    /\ service = "constructing"
    /\ last_eval = NoCall
    /\ first_selected = {}
    /\ unlocked = EmptyBag
    /\ pc = [h \in Handlers |-> "idle"]
    /\ req = [h \in Handlers |-> NoReq]
    /\ txn = [h \in Handlers |-> NoTxn]
    /\ observed = NoObs

\* load_master_data: raise ValueError unless the file has the expected columns
MasterDataLoads == expected_cols \subseteq config.master_columns

(* __init__: the configuration is read as it is, nothing in it is validated;
   init_database; load_master_data, whose exception ends the construction *)
Construct ==
    /\ service = "constructing"
    /\ service' = IF MasterDataLoads THEN "serving" ELSE "aborted"
    /\ UNCHANGED << config, now, started, fake_submissions, submissions, user_badges,
                    response, last_eval, first_selected, unlocked, client, sent >>
    /\ ConcUnchanged

(* process_submit of a valid file when calculate_scores or
   get_threshold_category raises: except Exception -> "Error procesando envío" *)
SubmitRaises(u, name, file_content) ==
    /\ ~ deadline_expired(is_teacher(Email(u)))
    /\ invalid_ids(PredictedIds(file_content)) = {}
    /\ ~ ScoringWorks
    /\ response' = [to |-> u, kind |-> "submit_error"]
    /\ last_eval' = NoCall
    /\ UNCHANGED << config, now, started, fake_submissions, submissions, user_badges, first_selected, unlocked >>
    /\ ConcUnchanged
    /\ Deliver

MaxStartupSubs == 2
StartupFiles == { << 1, 2 >>, << 2 >>, << 3 >>, << 9 >> }

NextStartup ==
    \/ Construct
    \/ \E file_content \in StartupFiles :
          /\ service = "serving"
          /\ \/ ScoringWorks /\ process_submit(1, "name_a", file_content, MaxStartupSubs)
             \/ ~ ScoringWorks /\ SubmitInvalidFile(1, "name_a", file_content)
             \/ SubmitRaises(1, "name_a", file_content)

SpecStartup == InitStartup /\ [][NextStartup]_vars

(* The list of a student's submissions: two students submit while the clock
   runs.  datetime.now() has advanced between two saves of the same user. *)
MaxListSubs == 3
ListFiles == { << 1, 2 >>, << 2 >> }

NextList ==
    \/ \E u \in Users, file_content \in ListFiles :
          /\ Len(submissions) < MaxListSubs
          /\ \A i \in RowsOfUser(submissions, u) : submissions[i].timestamp < now
          /\ SubmitFile(u, "name_a", file_content)
    \/ \E u \in Users, id \in 1 .. Len(submissions) : Select(u, id)
    \/ \E u \in Users : ListSubmitsOf(u)
    \/ Tick

SpecList == Init /\ [][NextList]_vars

(* The count badges: two students submit, one command at a time, until one
   of them has passed ten submissions *)
MaxCountSubs == 11
CountUsers == {1, 2}

NextCount ==
    \E u \in CountUsers :
       /\ Len(submissions) < MaxCountSubs
       /\ SubmitFile(u, "name_a", << 1, 2 >>)

SpecCount == Init /\ [][NextCount]_vars

----------------------------------------------------------------------------
(* The workloads of messages *)

MaxMessageSubs == 3
MessageUsers == {0, 1, 2}
MessageFiles == { << 1, 2 >>, << 9 >> }

MessageContents ==
    {[cmd |-> c] : c \in {"badges", "list submits", "duplicates", "leaderboard full",
                          "leaderboard public", "help", "other"}}
    \cup {[cmd |-> "submit", name |-> "name_a", file_content |-> f] : f \in MessageFiles}
    \cup {[cmd |-> "select", arg |-> "number", id |-> id] : id \in 1 .. MaxMessageSubs}
    \cup {[cmd |-> "select", arg |-> "text"]}
    \cup {[cmd |-> "fake_submit", action |-> a, name |-> "fake_a", public_score |-> 2] :
             a \in {"add", "remove"}}

Messages == MessagesOf(MessageUsers, MessageContents)

NextMessages ==
    \E message \in Messages : call_on_each_message(message, MaxMessageSubs)

SpecMessages == Init /\ [][NextMessages]_vars

(* A select of a user that the selected submissions outrank: master data with
   two public rows, so that a file can score below another and below zero;
   each user submits once, in turn, and selects *)
OutrankedMaster ==
    << [id |-> 1, clase_binaria |-> 1, dataset |-> "public"],
       [id |-> 2, clase_binaria |-> 1, dataset |-> "private"],
       [id |-> 3, clase_binaria |-> 0, dataset |-> "public"] >>

InitOutranked == InitConfig({DefaultThresholds}, {OutrankedMaster})

MaxOutrankedSubs == 6
OutrankedFiles == {{2}, {2, 3}}

NextOutranked ==
    \/ \E ids \in OutrankedFiles :
          /\ Len(submissions) < MaxOutrankedSubs
          /\ Submit(Len(submissions) + 1, "name_a", ids)
    \/ \E id \in 1 .. Len(submissions) : Select(id, id)

SpecOutranked == InitOutranked /\ [][NextOutranked]_vars

(* Concurrent submits: the student path of process_submit, where
   save_submission, the count of the user's rows and check_and_award_badges
   each open a connection of their own and commit what they wrote before the
   next one starts; another handler may run between any two of them *)

\* save_submission: INSERT and conn.commit()
SubSave(h, u, name, file_content) ==
    /\ pc[h] = "idle"
    /\ WriteLockFree
    /\ ~ is_teacher(Email(u))
    /\ ~ deadline_expired(is_teacher(Email(u)))
    /\ invalid_ids(PredictedIds(file_content)) = {}
    /\ LET predicted_positive_ids == PredictedIds(file_content)
           results == calculate_scores(predicted_positive_ids)
           user_info == [user_id |-> u, email |-> Email(u), full_name |-> name]
           saved == save_submission(submissions, user_info, sha256(file_content),
                                    results.public, results.private,
                                    Cardinality(predicted_positive_ids),
                                    get_threshold_category(config.gain_thresholds,
                                                           results.public.score))
       IN  /\ submissions' = saved
           /\ req' = [req EXCEPT ![h] =
                         [cmd |-> "submit", user_id |-> u,
                          submission_id |-> saved[Len(saved)].id,
                          public_score |-> results.public.score,
                          submission_count |-> 0]]
    /\ pc' = [pc EXCEPT ![h] = "sub_count"]
    /\ Silent
    /\ UNCHANGED << config, now, started, fake_submissions, user_badges, first_selected, unlocked, txn >>
    /\ Deliver

\* SELECT COUNT(*) FROM submissions WHERE user_id = ?
SubCount(h) ==
    /\ pc[h] = "sub_count"
    /\ req' = [req EXCEPT ![h].submission_count =
                  CountSubmissions(submissions, req[h].user_id)]
    /\ pc' = [pc EXCEPT ![h] = "sub_eval"]
    /\ Silent
    /\ UNCHANGED << config, now, started, fake_submissions, submissions, user_badges, first_selected, unlocked, txn >>
    /\ Deliver

\* check_and_award_badges(sender_id, submission_count, public score) and the response
SubEval(h) ==
    /\ pc[h] = "sub_eval"
    /\ WriteLockFree
    /\ LET ev == check_and_award_badges(submissions, user_badges, config.gain_thresholds,
                                        req[h].user_id, req[h].submission_count,
                                        req[h].public_score, FALSE)
       IN  /\ user_badges' = ev.rows
           /\ last_eval' = EvalRecord(ev)
           /\ Finish(h, [to |-> req[h].user_id, kind |-> "submitted",
                         id |-> req[h].submission_id,
                         public_score |-> req[h].public_score,
                         new_badges |-> ev.new_badges])
    /\ observed' = NoObs
    /\ UNCHANGED << config, now, started, fake_submissions, submissions, first_selected, unlocked, txn >>
    /\ Deliver

MaxRaceSubs == 2
RaceFiles == { << 1, 2 >>, << 2 >> }

NextRace ==
    \/ \E h \in Handlers, u \in ConcUsers, file_content \in RaceFiles :
          /\ Len(submissions) < MaxRaceSubs
          /\ SubSave(h, u, "name_a", file_content)
    \/ \E h \in Handlers : SubCount(h)
    \/ \E h \in Handlers : SubEval(h)

SpecRace == Init /\ [][NextRace]_vars

(* The competition under each labelling of the private records: the master
   file of the template and the one whose private records have the other
   label; every message of the teacher, the students and the bot *)
PrivateLabellings ==
    { [i \in DOMAIN master_df |->
          IF master_df[i].dataset = "private"
          THEN [master_df[i] EXCEPT !.clase_binaria = label]
          ELSE master_df[i]] : label \in {0, 1} }

InitPrivate == InitConfig({DefaultThresholds}, PrivateLabellings)

SpecPrivate == InitPrivate /\ [][NextMessages]_vars

----------------------------------------------------------------------------
(* Properties *)

Holds(badges, user_id, badge_name) == BagIn(<< user_id, badge_name >>, badges)

\* C1: a user who never completed a successful select has no selected
\* submission, and a user who did has exactly one: never two, never none again.
C1_ExactlyOneSelected ==
    \A u \in Users :
        Cardinality({i \in DOMAIN submissions :
                        submissions[i].user_id = u /\ submissions[i].is_selected})
            = (IF u \in first_selected THEN 1 ELSE 0)

\* a user with two submissions selected one and then the other
C1_Witness ==
    \E u \in Users :
        /\ u \in first_selected
        /\ response.kind = "selected" /\ response.to = u
        /\ \E i \in DOMAIN submissions :
              /\ submissions[i].user_id = u
              /\ submissions[i].id # response.id
              /\ ~ submissions[i].is_selected

\* C2: a reader that lists a user's submissions while a select of that user has
\* its UPDATEs under way, the user having had a selection, sees exactly one
\* selected submission: never none, never two.
C2_ReaderSeesOneSelected ==
    (observed.seen /\ observed.in_select /\ observed.had_selection)
        => observed.stars = 1

\* the reader ran between the two UPDATEs of a select that moves the selection
C2_Witness ==
    /\ observed.seen /\ observed.in_select /\ observed.had_selection
    /\ observed.stars = 1
    /\ \E h \in Handlers :
          /\ pc[h] = "sel_set"
          /\ req[h].user_id = observed.user_id
          /\ \E i \in DOMAIN submissions :
                /\ submissions[i].is_selected
                /\ submissions[i].user_id = observed.user_id
                /\ submissions[i].id # req[h].submission_id

\* the command select <id> of user u, whatever its outcome
SelectCommand(u, submission_id) ==
    SelectNotFound(u, submission_id) \/ Select(u, submission_id)

\* C3: a select of an id that no submission has, or that a submission of another
\* user has, answers not found and changes no row: no is_selected flag, no badge.
C3_SelectNotFoundChangesNothing ==
    [][\A u \in Users, id \in 1 .. MaxSubs + 1 :
          (/\ SelectCommand(u, id)
           /\ ~ \E i \in DOMAIN submissions :
                   submissions[i].id = id /\ submissions[i].user_id = u)
          => /\ response'.kind = "not_found"
             /\ response'.to = u
             /\ submissions' = submissions
             /\ user_badges' = user_badges]_vars

\* a user who has a selected submission asked for a submission of another user
C3_Witness ==
    /\ response.kind = "not_found"
    /\ \E i \in DOMAIN submissions :
          submissions[i].user_id = response.to /\ submissions[i].is_selected
    /\ \E i \in DOMAIN submissions : submissions[i].user_id # response.to

Range(seq) == {seq[i] : i \in DOMAIN seq}

\* C4: for every user with a submission, every leaderboard row of the user has
\* final_score = the private score of the user's selected submission when there
\* is one, and the best private score of the user's submissions when there is none.
C4_FinalScoreIsSelectedOrBest ==
    \A u \in Users :
        LET rows == {i \in DOMAIN submissions : submissions[i].user_id = u}
            selected == {i \in rows : submissions[i].is_selected}
            expected == IF selected # {}
                        THEN submissions[CHOOSE i \in selected : TRUE].private_score
                        ELSE Max({submissions[i].private_score : i \in rows})
        IN  rows # {} =>
               /\ \E r \in process_leaderboard_full(submissions) : r.user_id = u
               /\ \A r \in process_leaderboard_full(submissions) :
                     r.user_id = u => r.final_score = expected

\* C5: the badge table has at most one row for each (user_id, badge_name).
C5_BadgeRowsUnique ==
    \A row \in BagToSet(user_badges) : CopiesIn(row, user_badges) = 1

\* an evaluation whose rule fired for a badge the user already held
C5_Witness ==
    /\ last_eval.called
    /\ \E b \in Range(last_eval.badges_to_award) :
          /\ b \notin Range(last_eval.new_badges)
          /\ CopiesIn(<< last_eval.user_id, b >>, user_badges) = 1

\* C6: an evaluation returns exactly the badges whose rule fired and that the
\* user did not hold before the call, each once, and adds one row for each of
\* them and no other row: a second call with the same arguments returns nothing
\* that the first call returned.
C6_ReturnsExactlyNewBadges ==
    [][last_eval'.called =>
          LET u == last_eval'.user_id
              fired == Range(last_eval'.badges_to_award)
              new == Range(last_eval'.new_badges)
          IN  /\ new = {b \in fired : ~ Holds(user_badges, u, b)}
              /\ Len(last_eval'.new_badges) = Cardinality(new)
              /\ \A b \in BadgeNames :
                    CopiesIn(<< u, b >>, user_badges')
                        = CopiesIn(<< u, b >>, user_badges)
                          + (IF b \in new THEN 1 ELSE 0)]_vars

\* a call with submission_count = 1 for a user who holds first_submission
C6_Witness ==
    /\ last_eval.called
    /\ last_eval.submission_count = 1
    /\ "first_submission" \in Range(last_eval.badges_to_award)
    /\ "first_submission" \notin Range(last_eval.new_badges)
    /\ Holds(user_badges, last_eval.user_id, "first_submission")

\* C7: the badge first_model_selection is announced to a user by at most one
\* select response.
C7_UnlockedAnnouncedOnce ==
    \A u \in BagToSet(unlocked) : CopiesIn(u, unlocked) <= 1

\* C8: an evaluation's rule for submissions_10, submissions_50, submissions_100
\* fires exactly when submission_count is 10, 50, 100, and a user who does not
\* hold the badge holds it after the call exactly in that case.
C8_CountBadgesExactMatch ==
    [][last_eval'.called =>
          \A pair \in {<< 10, "submissions_10" >>, << 50, "submissions_50" >>,
                       << 100, "submissions_100" >>} :
              LET u == last_eval'.user_id
                  exact == last_eval'.submission_count = pair[1]
              IN  /\ (pair[2] \in Range(last_eval'.badges_to_award)) <=> exact
                  /\ (pair[2] \in Range(last_eval'.new_badges)) => exact
                  /\ ~ Holds(user_badges, u, pair[2])
                        => (Holds(user_badges', u, pair[2]) <=> exact)]_vars

\* a call with submission_count = 11 for a user who does not hold submissions_10
C8_Witness ==
    /\ last_eval.called
    /\ last_eval.submission_count = 11
    /\ ~ Holds(user_badges, last_eval.user_id, "submissions_10")

\* C9: an evaluation's rule for top_5_public fires exactly when fewer than five
\* selected submissions have a public score strictly above the call's score;
\* submissions that are not selected do not count.
C9_TopFiveAmongSelected ==
    last_eval.called =>
        (("top_5_public" \in Range(last_eval.badges_to_award))
            <=> ~ \E S \in SUBSET (DOMAIN submissions) :
                     /\ Cardinality(S) = 5
                     /\ \A i \in S : /\ submissions[i].is_selected
                                     /\ submissions[i].public_score
                                            > last_eval.public_score)

\* five selected submissions score above the evaluated one: the rule did not fire
C9_Witness ==
    /\ last_eval.called
    /\ "top_5_public" \notin Range(last_eval.badges_to_award)
    /\ response.kind = "submitted"

\* the second-highest of the configured min_scores
SecondHighest(thresholds) ==
    CHOOSE m \in {thresholds[i].min_score : i \in DOMAIN thresholds} :
        Cardinality({i \in DOMAIN thresholds : thresholds[i].min_score > m}) = 1

\* C10: with two or more thresholds, a submit's response announces
\* high_threshold_first exactly when the submission is the user's first whose
\* public score reaches the second-highest min_score, and a user holds the badge
\* exactly when a submission of theirs reached it; with fewer than two
\* thresholds no response announces it and nobody holds it.
C10_HighThresholdOnFirstReach ==
    LET two == Len(config.gain_thresholds) >= 2
        Reaches(i) == submissions[i].public_score
                          >= SecondHighest(config.gain_thresholds)
    IN  /\ response.kind = "submitted" =>
              (("high_threshold_first" \in Range(response.new_badges))
                  <=> /\ two
                      /\ Reaches(response.id)
                      /\ \A j \in 1 .. response.id - 1 :
                            submissions[j].user_id = response.to => ~ Reaches(j))
        /\ \A u \in Users :
              Holds(user_badges, u, "high_threshold_first")
                  <=> (two /\ \E i \in DOMAIN submissions :
                                  submissions[i].user_id = u /\ Reaches(i))

\* the badge came with a submission that followed a lower one of the same user
C10_Witness ==
    /\ response.kind = "submitted"
    /\ "high_threshold_first" \in Range(response.new_badges)
    /\ \E j \in 1 .. response.id - 1 : submissions[j].user_id = response.to

\* the thresholds, by position, that a score reaches
ReachedBy(thresholds, score) ==
    {i \in DOMAIN thresholds : thresholds[i].min_score <= score}

\* C11: whatever the order of the threshold list, a score that reaches at least
\* one min_score is classified in the category of the greatest min_score it
\* reaches.
C11_ClassifiedByGreatestReached ==
    \A r \in fake_submissions :
        LET thresholds == config.gain_thresholds
            reached == ReachedBy(thresholds, r.public_score)
        IN  reached # {} =>
               \E i \in reached :
                  /\ \A j \in reached : thresholds[j].min_score <= thresholds[i].min_score
                  /\ r.threshold_category = thresholds[i].category

\* a score between two thresholds was classified under a list in ascending order
C11_Witness ==
    /\ Len(config.gain_thresholds) = 3
    /\ \A i \in 1 .. 2 : config.gain_thresholds[i].min_score
                            < config.gain_thresholds[i + 1].min_score
    /\ \E r \in fake_submissions : r.public_score = 3 /\ r.threshold_category = "good"

\* C12: whatever the order of the threshold list, a score below every min_score
\* is classified in the category of the lowest min_score.
C12_BelowAllIsLowestCategory ==
    \A r \in fake_submissions :
        LET thresholds == config.gain_thresholds
        IN  ReachedBy(thresholds, r.public_score) = {} =>
               \E i \in DOMAIN thresholds :
                  /\ \A j \in DOMAIN thresholds :
                        thresholds[i].min_score <= thresholds[j].min_score
                  /\ r.threshold_category = thresholds[i].category

\* the rows of a partition with a given label that are, or are not, predicted
Cell(part, label, predicted, P) ==
    Cardinality({i \in DOMAIN config.master_df :
                    /\ config.master_df[i].dataset = part
                    /\ config.master_df[i].clase_binaria = label
                    /\ (config.master_df[i].id \in P) = predicted})

PartitionSize(part) ==
    Cardinality({i \in DOMAIN config.master_df : config.master_df[i].dataset = part})

ScoredAsDefined(result, part, P) ==
    /\ result.tp = Cell(part, 1, TRUE, P)
    /\ result.fp = Cell(part, 0, TRUE, P)
    /\ result.fn = Cell(part, 1, FALSE, P)
    /\ result.tn = Cell(part, 0, FALSE, P)
    /\ result.tp + result.tn + result.fp + result.fn = PartitionSize(part)
    /\ result.score = result.tp * config.gain_matrix.tp + result.tn * config.gain_matrix.tn
                      + result.fp * config.gain_matrix.fp + result.fn * config.gain_matrix.fn
    /\ P = {} => result.tp = 0 /\ result.fp = 0
    /\ all_ids \subseteq P => result.tn = 0 /\ result.fn = 0

\* C13: on each partition the scores count the predicted positives, the
\* predicted negatives and their labels as the confusion matrix defines them,
\* the four counts add up to the size of the partition, and the score is their
\* sum weighted by the gain matrix.
C13_ConfusionCountsAndScore ==
    response.kind = "scores" =>
        /\ ScoredAsDefined(response.results.public, "public", response.predicted)
        /\ ScoredAsDefined(response.results.private, "private", response.predicted)

\* a partition with both labels, scored with one hit and one miss of each kind
C13_Witness ==
    /\ response.kind = "scores"
    /\ response.results.public.tp + response.results.private.tp >= 1
    /\ response.results.public.fp + response.results.private.fp >= 1
    /\ response.results.public.fn + response.results.private.fn >= 1
    /\ PartitionSize("public") >= 1 /\ PartitionSize("private") >= 1

\* the identifiers of the file a stored submission was scored from
IdsOfRow(row) == PredictedIds(row.file_checksum[2])

\* C14: two submissions that predict the same identifiers are stored with the
\* same public and private score and the same confusion counts, whatever
\* submits, selects, badge awards, fake submissions and restarts came between.
C14_SameFileSameScores ==
    \A i, j \in DOMAIN submissions :
        IdsOfRow(submissions[i]) = IdsOfRow(submissions[j]) =>
            /\ submissions[i].public_score = submissions[j].public_score
            /\ submissions[i].private_score = submissions[j].private_score
            /\ submissions[i].tp = submissions[j].tp
            /\ submissions[i].tn = submissions[j].tn
            /\ submissions[i].fp = submissions[j].fp
            /\ submissions[i].fn = submissions[j].fn

\* the same identifiers were scored before and after a restart, with another
\* submission between them, a selection made and a fake submission stored
C14_Witness ==
    /\ Len(submissions) = 3
    /\ IdsOfRow(submissions[1]) = IdsOfRow(submissions[3])
    /\ IdsOfRow(submissions[1]) # IdsOfRow(submissions[2])
    /\ Len(started) = 2 /\ started[2] = 2
    /\ submissions[1].is_selected
    /\ fake_submissions # {}

\* a step of process_submit for a sender and a file
SubmitStep(u, file_content) == process_submit(u, "name_a", file_content, MaxSubmitSubs)

UnknownIds(file_content) ==
    PredictedIds(file_content) \ {config.master_df[i].id : i \in DOMAIN config.master_df}

SentByTeacher(u) == Email(u) \in config.teachers

\* C15: a submit of a file with an identifier that is not in the master data
\* stores no submission and awards no badge, for a student and for the teacher,
\* and when the file is parsed (any submit of the teacher, a student's submit
\* that is not past the deadline) the response reports the number of unknown
\* identifiers.
C15_InvalidIdsRejected ==
    [][\A u \in SubmitSenders, file_content \in SubmitFiles :
          (SubmitStep(u, file_content) /\ UnknownIds(file_content) # {}) =>
              /\ UNCHANGED << submissions, user_badges >>
              /\ response'.kind \in {"invalid_ids", "deadline_expired"}
              /\ response'.kind = "deadline_expired" =>
                     ~ SentByTeacher(u) /\ now > config.deadline
              /\ response'.kind = "invalid_ids" =>
                     response'.count = Cardinality(UnknownIds(file_content))]_vars

\* a student with a stored submission was told of two unknown identifiers
C15_Witness ==
    /\ response.kind = "invalid_ids"
    /\ response.count = 2
    /\ ~ SentByTeacher(response.to)
    /\ \E i \in DOMAIN submissions : submissions[i].user_id = response.to

\* C16: a student's submit at a time t >= deadline gets the deadline-expired
\* response and changes neither table; a student's submit before the deadline
\* and every submit of the teacher is processed.
C16_DeadlineStrict ==
    [][\A u \in SubmitSenders, file_content \in SubmitFiles :
          SubmitStep(u, file_content) =>
              IF ~ SentByTeacher(u) /\ now >= config.deadline
              THEN /\ response'.kind = "deadline_expired"
                   /\ UNCHANGED << submissions, user_badges >>
              ELSE response'.kind # "deadline_expired"]_vars

\* C17: a submit of the teacher with a valid file returns the report of both
\* scores, the category and the private confusion counts, and changes no table:
\* no leaderboard, duplicate report or rank can show it.
C17_TeacherSubmitNotStored ==
    [][\A u \in SubmitSenders, file_content \in SubmitFiles :
          (SubmitStep(u, file_content) /\ SentByTeacher(u)
                                      /\ UnknownIds(file_content) = {}) =>
              LET results == calculate_scores(PredictedIds(file_content))
              IN  /\ response'.kind = "report"
                  /\ response'.public_score = results.public.score
                  /\ response'.private_score = results.private.score
                  /\ response'.threshold_category =
                         get_threshold_category(config.gain_thresholds,
                                                results.public.score)
                  /\ << response'.tp, response'.tn, response'.fp, response'.fn >>
                         = << results.private.tp, results.private.tn,
                              results.private.fp, results.private.fn >>
                  /\ UNCHANGED << submissions, user_badges, fake_submissions >>]_vars

\* the teacher got a report after the deadline, next to a student's submission
C17_Witness ==
    /\ response.kind = "report"
    /\ SentByTeacher(response.to)
    /\ now > config.deadline
    /\ submissions # << >>

\* C18: whenever a submission is stored, the response returns the id of the new
\* row, which is greater than the id of every row stored before, by this bot
\* process or by an earlier one on the same database; stored ids never change.
C18_IdsStrictlyIncrease ==
    [][Len(submissions') > Len(submissions) =>
          /\ response'.kind = "submitted"
          /\ response'.id = submissions'[Len(submissions')].id
          /\ \A i \in DOMAIN submissions :
                /\ submissions'[i].id = submissions[i].id
                /\ submissions[i].id < response'.id]_vars

\* a submission was stored by the second bot process, after one of the first
C18_Witness ==
    /\ Len(started) = 2 /\ started[2] = 1
    /\ response.kind = "submitted"
    /\ response.id = 2

\* C19: the duplicates report has a group for a checksum exactly when
\* submissions of two different users carry it, and one group per checksum.
C19_DuplicatesAcrossUsersOnly ==
    response.kind = "duplicates" =>
        /\ \A c \in {sha256(f) : f \in DupFiles} :
              (\E g \in response.groups : g.file_checksum = c)
                  <=> \E i, j \in DOMAIN submissions :
                         /\ submissions[i].file_checksum = c
                         /\ submissions[j].file_checksum = c
                         /\ submissions[i].user_id # submissions[j].user_id
        /\ \A g \in response.groups : g.file_checksum \in {sha256(f) : f \in DupFiles}
        /\ \A g1, g2 \in response.groups :
              g1.file_checksum = g2.file_checksum => g1 = g2

\* one file was uploaded by both users and is reported; the other was uploaded
\* twice by the same user and is not
C19_Witness ==
    /\ response.kind = "duplicates"
    /\ Cardinality(response.groups) = 1
    /\ \E i, j \in DOMAIN submissions :
          /\ i # j
          /\ submissions[i].file_checksum = submissions[j].file_checksum
          /\ submissions[i].user_id = submissions[j].user_id
          /\ \A g \in response.groups :
                g.file_checksum # submissions[i].file_checksum

\* C20: the public leaderboard has exactly one row per user with a submission,
\* holding the user's best public score, exactly one row per stored fake
\* submission, holding its score, no other row, and scores in non-increasing
\* order.
C20_OneRowPerUserAndFake ==
    response.kind = "leaderboard_public" =>
        LET board == response.rows
            RealRows(u) == {i \in DOMAIN board :
                               board[i].source = "real" /\ board[i].user_id = u}
            FakeRows(name) == {i \in DOMAIN board :
                                  board[i].source = "fake" /\ board[i].name = name}
        IN  /\ \A u \in Users :
                  IF RowsOfUser(submissions, u) = {}
                  THEN RealRows(u) = {}
                  ELSE /\ Cardinality(RealRows(u)) = 1
                       /\ \A i \in RealRows(u) :
                             board[i].best_public =
                                Max({submissions[k].public_score :
                                       k \in RowsOfUser(submissions, u)})
            /\ \A name \in FakeNames :
                  IF FakeNamed(fake_submissions, name) = {}
                  THEN FakeRows(name) = {}
                  ELSE /\ Cardinality(FakeRows(name)) = 1
                       /\ \A i \in FakeRows(name) :
                             \A r \in FakeNamed(fake_submissions, name) :
                                board[i].best_public = r.public_score
            /\ \A i, j \in DOMAIN board :
                  i < j => board[i].best_public >= board[j].best_public

(* C21: fake names are unique in every state the bot reaches; adding a name
   that is already stored answers that the name exists and leaves the stored
   entry as it was, and adding a new name stores exactly one entry whose
   category is the classification of its score at the time of insertion *)
C21_FakeNamesUnique ==
    [][ /\ \A r1, r2 \in fake_submissions' : r1.name = r2.name => r1 = r2
        /\ \A u \in Teachers, name \in FakeNames, public_score \in FakeScores :
              FakeSubmitAdd(u, name, public_score) =>
                 IF \E r \in fake_submissions : r.name = name
                 THEN /\ response'.kind = "fake_exists"
                      /\ fake_submissions' = fake_submissions
                 ELSE /\ response'.kind = "fake_added"
                      /\ fake_submissions' = fake_submissions \cup
                            {[name |-> name, public_score |-> public_score,
                              threshold_category |->
                                 get_threshold_category(config.gain_thresholds,
                                                        public_score)]} ]_vars

C21_Witness ==
    /\ response # NoResponse
    /\ response.kind = "fake_exists"
    /\ \E r \in fake_submissions : r.name = response.name /\ r.public_score = MaxFakeScore
    /\ Cardinality(fake_submissions) = Cardinality(FakeNames)

(* C22: removing a fake name that is not stored answers "not found", an
   answer distinct from the one for a removal, and leaves the fake table as
   it was; removing a stored name deletes the entry of that name and no
   other; neither touches the submissions or the badges *)
C22_RemoveFakeExactlyNamed ==
    [][ \A u \in Teachers, name \in FakeNames :
           FakeSubmitRemove(u, name) =>
              /\ submissions' = submissions
              /\ user_badges' = user_badges
              /\ IF \E r \in fake_submissions : r.name = name
                 THEN /\ response'.kind = "fake_removed"
                      /\ fake_submissions' =
                            {r \in fake_submissions : r.name # name}
                 ELSE /\ response'.kind = "fake_not_found"
                      /\ fake_submissions' = fake_submissions ]_vars

C22_Witness ==
    /\ response # NoResponse
    /\ response.kind = "fake_removed"
    /\ \E r \in fake_submissions : r.name # response.name
    /\ submissions # << >>
    /\ DOMAIN user_badges # {}

(* C23: whichever step of a command fails, the handler, the access to the
   store or the delivery of the response, handle_message ends by sending the
   internal error to the sender and returns: the bot goes on serving *)
C23_ErrorsContained ==
    [][ \A u \in ServiceUsers, content \in Contents :
           handle_message(u, content, MaxServiceSubs) =>
              /\ service' = "serving"
              /\ (response' = NoResponse \/ client > 0) => sent' = InternalError(u)
              /\ (response' # NoResponse /\ client = 0) => sent' = response' ]_vars

(* C26: a command of the teachers sent by someone who is not a teacher is
   answered with the help of the students: no report is computed, nothing
   but that help or the internal error is delivered, and the tables stay as
   they were; a command that is not recognised is answered with the help of
   the sender's role and changes nothing *)
C26_TeacherCommandsNeedTeacher ==
    [][ \A u \in ServiceUsers, content \in Contents :
           ( /\ handle_message(u, content, MaxServiceSubs)
             /\ response' # NoResponse
             /\ \/ content.cmd \in TeacherOnly /\ ~ is_teacher(Email(u))
                \/ content.cmd = "other" ) =>
              /\ response'.kind = "help"
              /\ response'.text = get_help_message(is_teacher(Email(u)))
              /\ sent' \in {response', InternalError(u), NoResponse}
              /\ UNCHANGED << submissions, user_badges, fake_submissions >> ]_vars

C26_Witness ==
    /\ response.kind = "help"
    /\ response.text = get_help_message(FALSE)
    /\ sent = response
    /\ fake_submissions # {}
    /\ submissions # << >>
    /\ service = "serving"

(* C24: the bot serves commands only on a complete scoring configuration:
   with a gain matrix that lacks one of tp, tn, fp, fn, or a threshold list
   that is empty or malformed, the construction aborts *)
C24_BadScoringConfigAborts ==
    service = "serving" =>
       /\ GainMatrixComplete(config.gain_matrix)
       /\ ThresholdsWellFormed(config.gain_thresholds)

(* C25: the bot serves commands only on master data that has the columns
   id, clase_binaria and dataset and at least one row: without a column, or
   with zero rows, loading aborts the startup *)
C25_BadMasterDataAborts ==
    service = "serving" =>
       /\ expected_cols \subseteq config.master_columns
       /\ config.master_df # << >>

(* C27: the list of a user's submissions has one line for each submission
   of that user and no other line, ordered by timestamp descending: a
   submission recorded later is listed before one recorded earlier *)
C27_ListIsOwnNewestFirst ==
    (response # NoResponse /\ response.kind = "list_submits") =>
       LET lines == response.lines
           own == RowsOfUser(submissions, response.to)
       IN  /\ Len(lines) = Cardinality(own)
           /\ \A i \in own : \E k \in DOMAIN lines : lines[k] = ListLine(submissions[i])
           /\ \A k \in DOMAIN lines : lines[k].id \in own
           /\ \A k, l \in DOMAIN lines :
                 k < l => /\ lines[k].timestamp >= lines[l].timestamp
                          /\ lines[k].id > lines[l].id

C27_Witness ==
    /\ response # NoResponse
    /\ response.kind = "list_submits"
    /\ Len(response.lines) = 2
    /\ response.lines[1].is_selected
    /\ \E i \in DOMAIN submissions :
          /\ submissions[i].user_id # response.to
          /\ response.lines[2].id < i /\ i < response.lines[1].id

(* C28: with the submits of the students processed one at a time, the k-th
   successful submit of a user evaluates the badges with the count k: the
   first one reports first_submission, the tenth reports submissions_10, and
   no other submit of the user reports either *)
C28_KthSubmitCountsK ==
    (response # NoResponse /\ response.kind = "submitted") =>
       LET k == Cardinality({i \in RowsOfUser(submissions, response.to) :
                                i <= response.id})
       IN  /\ response.id = Len(submissions)
           /\ last_eval.submission_count = k
           /\ "first_submission" \in Range(response.new_badges) <=> k = 1
           /\ "submissions_10" \in Range(response.new_badges) <=> k = 10

C28_Witness ==
    /\ response # NoResponse
    /\ response.kind = "submitted"
    /\ "submissions_10" \in Range(response.new_badges)
    /\ Cardinality(RowsOfUser(submissions, response.to)) = 10
    /\ Len(submissions) = MaxCountSubs

(* C29: while two selects of one user, for two of their submissions, run in
   any interleaving, no committed state has two selected submissions of the
   user, and every select that commits leaves exactly its own submission
   selected: after both have completed, one of the two is selected *)
C29_ConcurrentSelectsKeepOne ==
    [][ /\ \A u \in ConcUsers : Cardinality(SelectedOfUser(submissions', u)) <= 1
        /\ \A h \in Handlers :
              SelCommit(h) =>
                 SelectedOfUser(submissions', req[h].user_id) = {req[h].submission_id}
        /\ \A u \in ConcUsers :
              (u \in first_selected' /\ \A h \in Handlers : ~ txn'[h].open) =>
                 Cardinality(SelectedOfUser(submissions', u)) = 1 ]_vars

\* one select is inside its transaction while the other, for another
\* submission of the same user, waits for the write lock
C29_Witness ==
    \E h1, h2 \in Handlers :
       /\ pc[h1] = "sel_commit"
       /\ pc[h2] = "sel_clear"
       /\ req[h1].user_id = req[h2].user_id
       /\ req[h1].submission_id # req[h2].submission_id
       /\ SelectedOfUser(submissions, req[h1].user_id) = {req[h2].submission_id}

(* C30: when two evaluations that fire the same badge rule for the same user
   run in any interleaving, the user gets one row for the badge, the badge
   is returned as new by the call that inserted it and by no other, and the
   call whose INSERT meets the row of the other returns normally, without
   the badge: an evaluation ends in an error only when its wait for the
   write lock timed out *)
C30_ConcurrentAwardsOnce ==
    [][ \A h \in Handlers :
           /\ EvCommit(h) =>
                 LET u == req[h].user_id
                     fired == Range(req[h].badges_to_award)
                     new == Range(last_eval'.new_badges)
                 IN  /\ new = {b \in fired : ~ Holds(user_badges, u, b)}
                     /\ \A b \in fired : CopiesIn(<< u, b >>, user_badges') = 1
                     /\ response'.kind # "error"
           /\ ( /\ pc[h] \in {"ev_rank", "ev_high", "ev_insert", "ev_commit"}
                /\ pc'[h] = "idle"
                /\ response'.kind = "error" ) => ~ WriteLockFree ]_vars

\* both selects were the user's first: the second evaluation found the row
\* of the first one and returned without the badge
C30_Witness ==
    /\ last_eval.called
    /\ last_eval.is_first_selection
    /\ "first_model_selection" \in Range(last_eval.badges_to_award)
    /\ "first_model_selection" \notin Range(last_eval.new_badges)
    /\ CopiesIn(<< last_eval.user_id, "first_model_selection" >>, user_badges) = 1
    /\ \A h \in Handlers : pc[h] = "idle"

(* C31: when thresholds share a min_score, a score that reaches it and no
   higher min_score is classified in the category of the one of them that
   comes first in the configured list *)
C31_TieGoesToEarlierConfigured ==
    \A r \in fake_submissions :
        LET thresholds == config.gain_thresholds
            reached == ReachedBy(thresholds, r.public_score)
            top == {i \in reached :
                       \A j \in reached : thresholds[j].min_score <= thresholds[i].min_score}
        IN  Cardinality(top) > 1 =>
               \E i \in top : /\ \A j \in top : i <= j
                              /\ r.threshold_category = thresholds[i].category

\* the tied thresholds are configured around a higher one, and a score between
\* the two levels was classified
C31_Witness ==
    /\ Len(config.gain_thresholds) = 3
    /\ config.gain_thresholds[1].min_score = 2
    /\ config.gain_thresholds[2].min_score = 4
    /\ config.gain_thresholds[3].min_score = 2
    /\ \E r \in fake_submissions :
          /\ r.public_score = 3
          /\ r.threshold_category = config.gain_thresholds[1].category

\* the gain of a partition for the predicted set P
GainOf(part, P) ==
    Cell(part, 1, TRUE, P) * config.gain_matrix.tp
    + Cell(part, 0, FALSE, P) * config.gain_matrix.tn
    + Cell(part, 0, TRUE, P) * config.gain_matrix.fp
    + Cell(part, 1, FALSE, P) * config.gain_matrix.fn

(* C32: every stored submission is consistent with the one set P of
   identifiers of its file: its public and private scores are the gains of P
   on the two partitions, its tp, tn, fp, fn are the counts of P on the
   private partition, positives_predicted is the size of P, and its category
   is the classification of its public score *)
C32_RowConsistentWithOneSet ==
    \A i \in DOMAIN submissions :
        LET row == submissions[i]
            P == IdsOfRow(row)
        IN  /\ row.public_score = GainOf("public", P)
            /\ row.private_score = GainOf("private", P)
            /\ row.tp = Cell("private", 1, TRUE, P)
            /\ row.tn = Cell("private", 0, FALSE, P)
            /\ row.fp = Cell("private", 0, TRUE, P)
            /\ row.fn = Cell("private", 1, FALSE, P)
            /\ row.positives_predicted = Cardinality(P)
            /\ row.threshold_category =
                  get_threshold_category(config.gain_thresholds, row.public_score)

\* a file that names one identifier twice, with a public score in another
\* category than its private score
C32_Witness ==
    \E i \in DOMAIN submissions :
        /\ Len(submissions[i].file_checksum[2]) = 2
        /\ submissions[i].positives_predicted = 1
        /\ submissions[i].public_score # submissions[i].private_score
        /\ submissions[i].threshold_category #
              get_threshold_category(config.gain_thresholds, submissions[i].private_score)

\* the stored fake submission that a row of the public leaderboard shows
FakeOfRow(row) == CHOOSE r \in fake_submissions : r.name = row.name

(* C33: in the public leaderboard a fake entry shows the category stored with
   it when it was added, and a real user's row shows the category of its
   score under the thresholds in force now *)
C33_FakeStoredRealRecomputed ==
    response.kind = "leaderboard_public" =>
        \A i \in DOMAIN response.rows :
            LET row == response.rows[i]
            IN  IF row.source = "fake"
                THEN response.categories[i] = FakeOfRow(row).threshold_category
                ELSE response.categories[i] =
                        get_threshold_category(config.gain_thresholds, row.best_public)

\* the part that holds: a real user's row shows the category recomputed from
\* its score, also when the thresholds are no longer those it was stored under
C33_RealRecomputed ==
    response.kind = "leaderboard_public" =>
        \A i \in DOMAIN response.rows :
            response.rows[i].source = "real" =>
                response.categories[i] =
                    get_threshold_category(config.gain_thresholds,
                                           response.rows[i].best_public)

\* the private messages that handle_message does not ignore
Handled(message) == ~ Ignored(message)

(* C34: the submissions are append-only.  No message deletes a row or changes
   a field of a stored row other than is_selected; is_selected of a row
   changes only in a successful select sent by the owner of the row; a row
   that is added is not selected *)
C34_RowsAppendOnly ==
    [][ /\ Len(submissions') >= Len(submissions)
        /\ \A i \in DOMAIN submissions :
              /\ submissions'[i] =
                    [submissions[i] EXCEPT !.is_selected = submissions'[i].is_selected]
              /\ submissions'[i].is_selected # submissions[i].is_selected =>
                    /\ response'.kind \in {"selected", "selected_unlocked"}
                    /\ \A message \in Messages :
                          call_on_each_message(message, MaxMessageSubs) =>
                             /\ Handled(message)
                             /\ message.content.cmd = "select"
                             /\ message.sender_id = submissions[i].user_id
        /\ \A i \in DOMAIN submissions' \ DOMAIN submissions :
              ~ submissions'[i].is_selected ]_vars

\* a user has replaced a selection by another while another user's selected
\* row stayed selected
C34_Witness ==
    /\ response.kind = "selected"
    /\ \E i, j, k \in DOMAIN submissions :
          /\ submissions[i].user_id = response.to
          /\ submissions[j].user_id = response.to
          /\ submissions[k].user_id # response.to
          /\ ~ submissions[i].is_selected
          /\ submissions[j].is_selected
          /\ submissions[k].is_selected

(* C35: once the master data is loaded, every identifier of it belongs to
   exactly one partition: the public and the private identifiers are
   disjoint, and together they are the identifiers that a submit accepts *)
C35_IdsPartitioned ==
    service = "serving" =>
       /\ PublicIds \cap PrivateIds = {}
       /\ PublicIds \cup PrivateIds = all_ids

\* a stored submission of an accepted identifier that is in no partition
C35_AcceptedInNoPartition ==
    \E i \in DOMAIN submissions :
        IdsOfRow(submissions[i]) \ (PublicIds \cup PrivateIds) # {}

(* C36: the full leaderboard has exactly one row for each user_id that has a
   submission, and the row counts all the submissions of that user_id, also
   those recorded under another full name or email *)
C36_OneRowPerUserId ==
    \A u \in Users :
        LET own == RowsOfUser(submissions, u)
            rows == {r \in process_leaderboard_full(submissions) : r.user_id = u}
        IN  own # {} =>
               /\ Cardinality(rows) = 1
               /\ \A r \in rows : r.total_submissions = Cardinality(own)

(* C37: a select adds no badge but first_model_selection: not top_5_public,
   not high_threshold_first, not a badge of a submission count *)
C37_SelectAddsOnlyFirstSelection ==
    [][ response'.kind \in {"selected", "selected_unlocked"} =>
           \A row \in BagToSet(user_badges') :
               CopiesIn(row, user_badges') > CopiesIn(row, user_badges) =>
                  row = << response'.to, "first_model_selection" >> ]_vars

(* C38: when the submits of a user have all completed, in whatever order
   their steps were taken, the user holds first_submission *)
C38_FirstSubmissionNotLost ==
    Idle =>
       \A u \in ConcUsers :
           RowsOfUser(submissions, u) # {} => Holds(user_badges, u, "first_submission")

\* a stored row without what was computed from the private records
HidePrivate(row) ==
    [row EXCEPT !.private_score = 0, !.tp = 0, !.tn = 0, !.fp = 0, !.fn = 0]

PublicView(subs) == [i \in DOMAIN subs |-> HidePrivate(subs[i])]

(* C39: nothing a student is answered, and no badge, depends on the private
   records.  In every step the public view of the submissions and the badges
   after the step are those computed from the public view before it, the
   public records and the message, and the response to a sender who is not a
   teacher is the one computed from them: two runs that differ in the labels
   of the private records agree on all of these *)
C39_StudentsSeeNoPrivateData ==
    [][ LET u == response'.to
            kind == response'.kind
            before == PublicView(submissions)
            after == PublicView(submissions')
            student == kind # "none" /\ ~ is_teacher(Email(u))
        IN  IF student /\ kind = "submitted"
            THEN LET n == Len(submissions')
                     P == IdsOfRow(submissions'[n])
                     score == GainOf("public", P)
                     ev == check_and_award_badges(after, user_badges,
                                                  config.gain_thresholds, u,
                                                  CountSubmissions(after, u), score, FALSE)
                 IN  /\ n = Len(submissions) + 1
                     /\ \A i \in DOMAIN before : after[i] = before[i]
                     /\ after[n].public_score = score
                     /\ after[n].positives_predicted = Cardinality(P)
                     /\ after[n].threshold_category =
                           get_threshold_category(config.gain_thresholds, score)
                     /\ user_badges' = ev.rows
                     /\ response' = [to |-> u, kind |-> "submitted", id |-> after[n].id,
                                     public_score |-> score,
                                     new_badges |-> ev.new_badges]
            ELSE IF student /\ kind \in {"selected", "selected_unlocked"}
            THEN LET chosen == SetSelection(ClearSelection(before, u), u, response'.id)
                 IN  /\ after = chosen
                     /\ user_badges' =
                           IF kind = "selected_unlocked"
                           THEN check_and_award_badges(chosen, user_badges,
                                                       config.gain_thresholds,
                                                       u, 0, 0, TRUE).rows
                           ELSE user_badges
                     /\ DOMAIN response' = {"to", "kind", "id"}
            ELSE /\ after = before
                 /\ user_badges' = user_badges
                 /\ (student /\ kind = "list_submits") =>
                       \E list \in process_list_submits(before, u) :
                           response'.lines = [i \in DOMAIN list |-> ListLine(list[i])]
                 /\ (student /\ kind = "badges") =>
                       response'.badges = process_badges(user_badges, u)
                 /\ (student /\ kind \notin {"list_submits", "badges"}) =>
                       DOMAIN response' \subseteq {"to", "kind", "count", "text"} ]_vars

\* under the other labelling of the private records a student was answered on
\* a submit whose stored private score and counts are not those of the public view
C39_Witness ==
    /\ \E i \in DOMAIN config.master_df :
          /\ config.master_df[i].dataset = "private"
          /\ config.master_df[i].clase_binaria # master_df[i].clase_binaria
    /\ response.kind = "submitted"
    /\ submissions[response.id] # HidePrivate(submissions[response.id])
    /\ \E i \in DOMAIN submissions : submissions[i].is_selected
    /\ DOMAIN user_badges # {}

\* a message of a stream or a group, or one that the bot's own account sent
NotForTheBot(message) ==
    message.type # "private" \/ message.sender_id = bot_id

(* C40: a message that is not private, or that the bot itself sent, is
   ignored: nothing is sent and nothing stored changes; every other private
   message gets exactly one response, addressed to its sender *)
C40_IgnoredOrAnsweredOnce ==
    [][ \A message \in ServiceMessages :
           call_on_each_message(message, MaxServiceSubs) =>
              IF NotForTheBot(message)
              THEN /\ sent' = NoResponse
                   /\ UNCHANGED << submissions, user_badges, fake_submissions >>
              ELSE /\ sent' # NoResponse
                   /\ sent'.to = message.sender_id ]_vars

\* the same while the calls of send_message return
C40_AnsweredOnceWhenDeliverable ==
    [][ \A message \in ServiceMessages :
           (call_on_each_message(message, MaxServiceSubs) /\ client = 0) =>
              IF NotForTheBot(message)
              THEN /\ sent' = NoResponse
                   /\ UNCHANGED << submissions, user_badges, fake_submissions >>
              ELSE /\ sent' # NoResponse
                   /\ sent'.to = message.sender_id ]_vars

====
